---- MODULE Spec2Model ----
(***************************************************************************)
(* Evaluation engine of request_eval_agent:                                *)
(*   src/api/project_eval/evaluators.py  (normalizer, aggregator)          *)
(*   src/api/project_eval/prompts.py     (prompt catalog)                  *)
(*                                                                         *)
(* Conventions of the model                                                *)
(*   - a Python str is a sequence of one-character strings;                *)
(*   - a Python value is a tagged record (field t);                        *)
(*   - a Python float is PyNum(m, e): m is the value in thousandths and e  *)
(*     the sign of (the double - m/1000), which is what decides a decimal  *)
(*     tie when the double is formatted with two decimals;                 *)
(*   - a score of a result is an integer number of thousandths, a multiple *)
(*     of 10 (two decimals).                                               *)
(***************************************************************************)
EXTENDS Integers, Sequences, FiniteSets, TLC

(***************************************************************************)
(* Python values                                                           *)
(***************************************************************************)
PyNone == [t |-> "none"]
PyBool(b) == [t |-> "bool", b |-> b]
PyNum(m, e) == [t |-> "num", m |-> m, e |-> e]
PyNaN == [t |-> "nan"]
PyInf == [t |-> "inf"]
PyStr(s) == [t |-> "str", s |-> s]
PyBytes(bs) == [t |-> "bytes", s |-> bs]
PyList(items) == [t |-> "list", items |-> items]
\* a dict is its items in insertion order, each [k |-> key chars, v |-> value]
PyDict(items) == [t |-> "dict", items |-> items]
\* any other object (tuple, set, ...)
PyOther == [t |-> "other"]

\* dict[k] = v : an existing key keeps its position
RECURSIVE DictSet(_, _, _)
DictSet(items, k, v) ==
  IF items = <<>> THEN << [k |-> k, v |-> v] >>
  ELSE IF Head(items).k = k THEN << [k |-> k, v |-> v] >> \o Tail(items)
  ELSE << Head(items) >> \o DictSet(Tail(items), k, v)

DictHas(items, k) == \E i \in 1..Len(items) : items[i].k = k

\* dict.get(k, default)
DictGet(items, k, default) ==
  IF DictHas(items, k)
  THEN items[CHOOSE i \in 1..Len(items) : items[i].k = k].v
  ELSE default

(***************************************************************************)
(* str methods                                                             *)
(***************************************************************************)
Whitespace == {" ", "\n", "\t", "\r"}

RECURSIVE LStrip(_, _)
LStrip(s, cs) == IF s # <<>> /\ Head(s) \in cs THEN LStrip(Tail(s), cs) ELSE s

RECURSIVE RStrip(_, _)
RStrip(s, cs) ==
  IF s # <<>> /\ s[Len(s)] \in cs THEN RStrip(SubSeq(s, 1, Len(s) - 1), cs) ELSE s

\* s.strip(cs)
StripChars(s, cs) == RStrip(LStrip(s, cs), cs)

\* s.strip()
Strip(s) == StripChars(s, Whitespace)

\* s[:n]
Prefix(s, n) == SubSeq(s, 1, IF Len(s) < n THEN Len(s) ELSE n)

\* sep.join(parts)
RECURSIVE Join(_, _)
Join(parts, sep) ==
  IF parts = <<>> THEN <<>>
  ELSE IF Len(parts) = 1 THEN parts[1]
  ELSE parts[1] \o sep \o Join(Tail(parts), sep)

\* s[i:].startswith(lit), i counted from 1
StartsWithAt(s, i, lit) ==
  /\ i + Len(lit) - 1 <= Len(s)
  /\ \A k \in 1..Len(lit) : s[i + k - 1] = lit[k]

(***************************************************************************)
(* floats: float(), f"{x:.2f}", comparison with 1.0 and 5.0                *)
(***************************************************************************)
\* The decimal ties k.xx5 in [1, 5] whose nearest double lies above them (the
\* others that are no multiple of 1/8 lie below; a multiple of 1/8 is exact).
DecimalTieAbove == {
    1135, 1145, 1155, 1165, 1175, 1185, 1195, 1205, 1215, 1225, 1235, 1245, 1385, 1395,
    1405, 1415, 1425, 1435, 1445, 1455, 1465, 1475, 1485, 1495, 1635, 1645, 1655, 1665,
    1675, 1685, 1695, 1705, 1715, 1725, 1735, 1745, 1885, 1895, 1905, 1915, 1925, 1935,
    1945, 1955, 1965, 1975, 1985, 1995, 2015, 2035, 2055, 2075, 2095, 2115, 2145, 2165,
    2185, 2205, 2225, 2245, 2265, 2285, 2305, 2325, 2345, 2365, 2395, 2415, 2435, 2455,
    2475, 2495, 2515, 2535, 2555, 2575, 2595, 2615, 2645, 2665, 2685, 2705, 2725, 2745,
    2765, 2785, 2805, 2825, 2845, 2865, 2895, 2915, 2935, 2955, 2975, 2995, 3015, 3035,
    3055, 3075, 3095, 3115, 3145, 3165, 3185, 3205, 3225, 3245, 3265, 3285, 3305, 3325,
    3345, 3365, 3395, 3415, 3435, 3455, 3475, 3495, 3515, 3535, 3555, 3575, 3595, 3615,
    3645, 3665, 3685, 3705, 3725, 3745, 3765, 3785, 3805, 3825, 3845, 3865, 3895, 3915,
    3935, 3955, 3975, 3995, 4025, 4035, 4065, 4075, 4105, 4115, 4155, 4165, 4195, 4205,
    4235, 4245, 4275, 4285, 4315, 4325, 4355, 4365, 4405, 4415, 4445, 4455, 4485, 4495,
    4525, 4535, 4565, 4575, 4605, 4615, 4655, 4665, 4695, 4705, 4735, 4745, 4775, 4785,
    4815, 4825, 4855, 4865, 4905, 4915, 4945, 4955, 4985, 4995 }

\* sign of (nearest double of m/1000) - m/1000, where a 2-decimal format sees it
ReprErr(m) ==
  IF m % 10 # 5 \/ m % 125 = 0 THEN 0
  ELSE IF m \in DecimalTieAbove THEN 1 ELSE -1

Digits == {"0", "1", "2", "3", "4", "5", "6", "7", "8", "9"}
DigitSeq == <<"0", "1", "2", "3", "4", "5", "6", "7", "8", "9">>
DigitVal(c) == (CHOOSE i \in 1..10 : DigitSeq[i] = c) - 1

\* first index at or after i that holds no digit
RECURSIVE ScanDigits(_, _)
ScanDigits(s, i) ==
  IF i <= Len(s) /\ s[i] \in Digits THEN ScanDigits(s, i + 1) ELSE i

\* value of the digits s[a..b-1]
RECURSIVE DigitsValue(_, _, _)
DigitsValue(s, a, b) ==
  IF a >= b THEN 0 ELSE DigitsValue(s, a, b - 1) * 10 + DigitVal(s[b - 1])

\* the float of the decimal numeral: sign, integer digits s[a..b-1], fraction
\* digits s[c..d-1] (c = d when there is none)
DecimalFloat(s, neg, a, b, c, d) ==
  LET digit(k) == IF k < d THEN DigitVal(s[k]) ELSE 0
      mag == DigitsValue(s, a, b) * 1000 + digit(c) * 100 + digit(c + 1) * 10 + digit(c + 2)
      more == \E k \in (c + 3)..(d - 1) : s[k] # "0"
      sgn == IF neg THEN -1 ELSE 1
  IN  PyNum(sgn * mag, IF more THEN sgn ELSE sgn * ReprErr(mag))

\* float(str): optional sign, digits with an optional fraction, surrounding
\* whitespace allowed; anything else is a ValueError ([ok |-> FALSE])
StrToFloat(s0) ==
  LET s == Strip(s0)
      signed == s # <<>> /\ s[1] \in {"-", "+"}
      a == IF signed THEN 2 ELSE 1
      b == ScanDigits(s, a)
      dot == b <= Len(s) /\ s[b] = "."
      c == IF dot THEN b + 1 ELSE b
      d == IF dot THEN ScanDigits(s, c) ELSE b
  IN  IF d = Len(s) + 1 /\ (b > a \/ d > c)
      THEN [ok |-> TRUE, v |-> DecimalFloat(s, signed /\ s[1] = "-", a, b, c, d)]
      ELSE [ok |-> FALSE]

\* float(value): the float, or a raised TypeError/ValueError ([ok |-> FALSE])
PyFloat(v) ==
  CASE v.t \in {"num", "nan", "inf"} -> [ok |-> TRUE, v |-> v]
    [] v.t = "bool" -> [ok |-> TRUE, v |-> PyNum(IF v.b THEN 1000 ELSE 0, 0)]
    [] v.t = "str" -> StrToFloat(v.s)
    [] OTHER -> [ok |-> FALSE]

\* the range check without its upper bound
InRange_NoUpperBound(f) ==
  /\ f.t = "num"
  /\ f.m > 1000 \/ (f.m = 1000 /\ f.e >= 0)

\* 1.0 <= f <= 5.0
InRange(f) ==
  /\ f.t = "num"
  /\ f.m > 1000 \/ (f.m = 1000 /\ f.e >= 0)
  /\ f.m < 5000 \/ (f.m = 5000 /\ f.e <= 0)

\* float(f"{f:.2f}") for f >= 0: the nearest multiple of 0.01, an exact tie to even
Round2(f) ==
  LET lo == (f.m \div 10) * 10
      r == f.m % 10
      up == r > 5 \/ (r = 5 /\ (f.e > 0 \/ (f.e = 0 /\ (lo \div 10) % 2 = 1)))
  IN  PyNum(IF up THEN lo + 10 ELSE lo, 0)

Three == PyNum(3000, 0)

(***************************************************************************)
(* json.loads on the grammar the replies use: objects, arrays, strings     *)
(* with the escapes \" \\ \/ \n \t \r, numbers without exponent, true,     *)
(* false, null, NaN, Infinity.  A result is [ok, v, i]: the value and the  *)
(* index after it, or [ok |-> FALSE] for a JSONDecodeError.                *)
(***************************************************************************)
ParseFail == [ok |-> FALSE]
Parsed(v, i) == [ok |-> TRUE, v |-> v, i |-> i]

RECURSIVE SkipWS(_, _)
SkipWS(s, i) ==
  IF i <= Len(s) /\ s[i] \in Whitespace THEN SkipWS(s, i + 1) ELSE i

Unescape(c) ==
  CASE c = "n" -> "\n" [] c = "t" -> "\t" [] c = "r" -> "\r" [] OTHER -> c

\* the string whose opening quote precedes index i
RECURSIVE ScanString(_, _, _)
ScanString(s, i, acc) ==
  IF i > Len(s) THEN ParseFail
  ELSE IF s[i] = "\"" THEN Parsed(PyStr(acc), i + 1)
  ELSE IF s[i] = "\\"
       THEN IF i + 1 <= Len(s) /\ s[i + 1] \in {"\"", "\\", "/", "n", "t", "r"}
            THEN ScanString(s, i + 2, Append(acc, Unescape(s[i + 1])))
            ELSE ParseFail
  ELSE IF s[i] \in {"\n", "\t", "\r"} THEN ParseFail
  ELSE ScanString(s, i + 1, Append(acc, s[i]))

\* the number that starts at index i (s[i] is "-" or a digit)
ScanNumber(s, i) ==
  LET neg == s[i] = "-"
      a == IF neg THEN i + 1 ELSE i
      b == IF a <= Len(s) /\ s[a] = "0" THEN a + 1 ELSE ScanDigits(s, a)
      frac == b + 1 <= Len(s) /\ s[b] = "." /\ s[b + 1] \in Digits
      c == IF frac THEN b + 1 ELSE b
      d == IF frac THEN ScanDigits(s, c) ELSE b
  IN  IF b = a THEN ParseFail ELSE Parsed(DecimalFloat(s, neg, a, b, c, d), d)

LitTrue == <<"t", "r", "u", "e">>
LitFalse == <<"f", "a", "l", "s", "e">>
LitNull == <<"n", "u", "l", "l">>
LitNaN == <<"N", "a", "N">>
LitInfinity == <<"I", "n", "f", "i", "n", "i", "t", "y">>

RECURSIVE ParseValue(_, _)
RECURSIVE ParseElems(_, _, _)
RECURSIVE ParseMembers(_, _, _)

\* the value that starts at index i (whitespace already skipped)
ParseValue(s, i) ==
  IF i > Len(s) THEN ParseFail
  ELSE CASE s[i] = "{" ->
              LET j == SkipWS(s, i + 1)
              IN  IF j <= Len(s) /\ s[j] = "}" THEN Parsed(PyDict(<<>>), j + 1)
                  ELSE ParseMembers(s, j, <<>>)
         [] s[i] = "[" ->
              LET j == SkipWS(s, i + 1)
              IN  IF j <= Len(s) /\ s[j] = "]" THEN Parsed(PyList(<<>>), j + 1)
                  ELSE ParseElems(s, j, <<>>)
         [] s[i] = "\"" -> ScanString(s, i + 1, <<>>)
         [] StartsWithAt(s, i, LitTrue) -> Parsed(PyBool(TRUE), i + 4)
         [] StartsWithAt(s, i, LitFalse) -> Parsed(PyBool(FALSE), i + 5)
         [] StartsWithAt(s, i, LitNull) -> Parsed(PyNone, i + 4)
         [] StartsWithAt(s, i, LitNaN) -> Parsed(PyNaN, i + 3)
         [] StartsWithAt(s, i, LitInfinity) -> Parsed(PyInf, i + 8)
         [] StartsWithAt(s, i, <<"-">> \o LitInfinity) -> Parsed(PyInf, i + 9)
         [] s[i] \in Digits -> ScanNumber(s, i)
         [] s[i] = "-" /\ ~StartsWithAt(s, i + 1, LitInfinity) -> ScanNumber(s, i)
         [] OTHER -> ParseFail

\* the elements of an array from index i (whitespace skipped) up to its "]"
ParseElems(s, i, acc) ==
  LET e == ParseValue(s, i)
      j == IF e.ok THEN SkipWS(s, e.i) ELSE 0
  IN  IF ~e.ok \/ j > Len(s) THEN ParseFail
      ELSE IF s[j] = "]" THEN Parsed(PyList(Append(acc, e.v)), j + 1)
      ELSE IF s[j] = "," THEN ParseElems(s, SkipWS(s, j + 1), Append(acc, e.v))
      ELSE ParseFail

\* the members of an object from index i (whitespace skipped) up to its "}";
\* a repeated key keeps the last value
ParseMembers(s, i, acc) ==
  LET k == IF i <= Len(s) /\ s[i] = "\"" THEN ScanString(s, i + 1, <<>>) ELSE ParseFail
      c == IF k.ok THEN SkipWS(s, k.i) ELSE 0
      colon == k.ok /\ c <= Len(s) /\ s[c] = ":"
      e == IF colon THEN ParseValue(s, SkipWS(s, c + 1)) ELSE ParseFail
      j == IF e.ok THEN SkipWS(s, e.i) ELSE 0
  IN  IF ~e.ok \/ j > Len(s) THEN ParseFail
      ELSE IF s[j] = "}" THEN Parsed(PyDict(DictSet(acc, k.v.s, e.v)), j + 1)
      ELSE IF s[j] = "," THEN ParseMembers(s, SkipWS(s, j + 1), DictSet(acc, k.v.s, e.v))
      ELSE ParseFail

\* json.loads(s)
JsonLoads(s) ==
  LET r == ParseValue(s, SkipWS(s, 1))
  IN  IF r.ok /\ SkipWS(s, r.i) > Len(s) THEN r ELSE ParseFail

(***************************************************************************)
(* evaluators.py: _coerce_score, _band                                     *)
(***************************************************************************)
\* _coerce_score(value)
CoerceScore(value) ==
  LET f == PyFloat(value)
  IN  IF f.ok /\ InRange(f.v) THEN Round2(f.v) ELSE Three

\* the thresholds of the class docstring: mid below 3.77
Band_Docstring(score) ==
  IF score < 2500 THEN "low"
  ELSE IF score < 3770 THEN "mid"
  ELSE "high"

\* _band(score), score in thousandths
Band(score) ==
  IF score < 2500 THEN "low"
  ELSE IF score < 3670 THEN "mid"
  ELSE "high"

(***************************************************************************)
(* Evaluator._normalize_llm_response                                       *)
(***************************************************************************)
ScoreKey == <<"s","c","o","r","e","_","1","_","t","o","_","5">>
ReasonKey == <<"r","e","a","s","o","n">>
UnparseableReason ==
  <<"U","n","p","a","r","s","e","a","b","l","e"," ","L","L","M"," ","o","u","t","p","u","t",";"," ","d","e","f","a","u","l","t","e","d",".">>
NonDictReason ==
  <<"N","o","n","-","d","i","c","t"," ","L","L","M"," ","o","u","t","p","u","t",";"," ","d","e","f","a","u","l","t","e","d",".">>
NoReason ==
  <<"N","o"," ","r","e","a","s","o","n",";"," ","d","e","f","a","u","l","t","e","d",".">>

\* the character ` (a TLA+ string cannot hold it)
Backtick == "<backtick>"

\* a byte that starts no valid UTF-8 sequence
BadByte == "<ff>"

\* bytes.decode("utf-8", errors="ignore")
DecodeIgnore(bs) == SelectSeq(bs, LAMBDA b : b # BadByte)

\* the keys taken as delivered
CleanKeys_AsDelivered(items, acc) == items

\* {str(k).strip(" '\""): v for k, v in resp.items()}
RECURSIVE CleanKeys(_, _)
CleanKeys(items, acc) ==
  IF items = <<>> THEN acc
  ELSE CleanKeys(Tail(items),
                 DictSet(acc, StripChars(Head(items).k, {" ", "'", "\""}), Head(items).v))

\* the dict {"score_1_to_5": score, "reason": reason}
RespDict(score, reason) == [score_1_to_5 |-> score, reason |-> reason]

\* a defaulted score that also discards the reason given
NormalizeCleaned_DropReason(cleaned) ==
  LET f == PyFloat(DictGet(cleaned, ScoreKey, Three))
      given == DictGet(cleaned, ReasonKey, PyNone)
  IN  IF f.ok /\ InRange(f.v)
      THEN RespDict(Round2(f.v),
                    PyStr(Strip(IF given.t # "str" \/ Strip(given.s) = <<>>
                                THEN NoReason ELSE given.s)))
      ELSE RespDict(Round2(Three), PyStr(NoReason))

\* lines 67-77: the cleaned record to the returned dict
NormalizeCleaned(cleaned) ==
  LET f == PyFloat(DictGet(cleaned, ScoreKey, Three))
      given == DictGet(cleaned, ReasonKey, PyNone)
  IN  RespDict(Round2(IF f.ok /\ InRange(f.v) THEN f.v ELSE Three),
               PyStr(Strip(IF given.t # "str" \/ Strip(given.s) = <<>>
                           THEN NoReason ELSE given.s)))

\* lines 62-66: a list that starts with a dict is replaced by that dict
NormalizeValue(v) ==
  IF v.t = "list" /\ v.items # <<>> /\ v.items[1].t = "dict"
  THEN NormalizeCleaned(CleanKeys(v.items[1].items, <<>>))
  ELSE IF v.t # "dict" THEN RespDict(Three, PyStr(NonDictReason))
  ELSE NormalizeCleaned(CleanKeys(v.items, <<>>))

\* lines 57-61: a str is parsed
NormalizeDecoded(v) ==
  IF v.t # "str" THEN NormalizeValue(v)
  ELSE IF JsonLoads(v.s).ok THEN NormalizeValue(JsonLoads(v.s).v)
  ELSE RespDict(Three, PyStr(UnparseableReason))

NormalizeLLMResponse(resp) ==
  NormalizeDecoded(IF resp.t = "bytes" THEN PyStr(DecodeIgnore(resp.s)) ELSE resp)

(***************************************************************************)
(* Replies given to the normalizer: records of a score field and a reason  *)
(* field, delivered in the shapes a backend produces.                      *)
(***************************************************************************)
\* the decimal numeral of n >= 0
RECURSIVE NatText(_)
NatText(n) ==
  IF n < 10 THEN << DigitSeq[n + 1] >>
  ELSE NatText(n \div 10) \o << DigitSeq[(n % 10) + 1] >>

\* the numeral of m thousandths, three decimals
MilliText(m) ==
  LET a == IF m < 0 THEN -m ELSE m
  IN  (IF m < 0 THEN <<"-">> ELSE <<>>) \o NatText(a \div 1000) \o <<".">>
      \o << DigitSeq[((a \div 100) % 10) + 1], DigitSeq[((a \div 10) % 10) + 1],
            DigitSeq[(a % 10) + 1] >>

\* a numeral whose nearest double is the float f (f.m > 0 when f.e # 0)
NumText(f) ==
  IF f.e = 0 \/ f.e = ReprErr(f.m) THEN MilliText(f.m)
  ELSE IF f.e > 0 THEN MilliText(f.m) \o <<"1">>
  ELSE MilliText(f.m - 1) \o <<"9">>

RECURSIVE EscapeText(_)
EscapeText(s) ==
  IF s = <<>> THEN <<>>
  ELSE (CASE Head(s) = "\"" -> <<"\\", "\"">>
          [] Head(s) = "\\" -> <<"\\", "\\">>
          [] Head(s) = "\n" -> <<"\\", "n">>
          [] Head(s) = "\t" -> <<"\\", "t">>
          [] OTHER -> << Head(s) >>) \o EscapeText(Tail(s))

Quoted(s) == <<"\"">> \o EscapeText(s) \o <<"\"">>

\* json.dumps(v)
RECURSIVE JsonDumps(_)
RECURSIVE DumpItems(_, _)
JsonDumps(v) ==
  CASE v.t = "none" -> LitNull
    [] v.t = "bool" -> IF v.b THEN LitTrue ELSE LitFalse
    [] v.t = "num" -> NumText(v)
    [] v.t = "nan" -> LitNaN
    [] v.t = "inf" -> LitInfinity
    [] v.t = "str" -> Quoted(v.s)
    [] v.t = "list" -> <<"[">> \o DumpItems(v.items, FALSE) \o <<"]">>
    [] v.t = "dict" -> <<"{">> \o DumpItems(v.items, TRUE) \o <<"}">>
DumpItems(items, members) ==
  IF items = <<>> THEN <<>>
  ELSE (IF members
        THEN Quoted(Head(items).k) \o <<":", " ">> \o JsonDumps(Head(items).v)
        ELSE JsonDumps(Head(items)))
       \o (IF Len(items) > 1 THEN <<",", " ">> ELSE <<>>)
       \o DumpItems(Tail(items), members)

(***************************************************************************)
(* Evaluator._index_by_project_name and Evaluator._build_prompt_kwargs.    *)
(* The keys of the corpora are strings taken whole; PyText is a str whose  *)
(* characters are not looked at.                                           *)
(***************************************************************************)
PyText(s) == [t |-> "text", s |-> s]

\* bool(v)
Truthy(v) ==
  CASE v.t = "none" -> FALSE
    [] v.t = "bool" -> v.b
    [] v.t = "num" -> v.m # 0 \/ v.e # 0
    [] v.t = "text" -> v.s # ""
    [] v.t = "str" -> v.s # <<>>
    [] v.t = "list" -> v.items # <<>>
    [] v.t = "dict" -> v.items # <<>>
    [] OTHER -> TRUE

\* hash(v) is defined: v can be the key of a dict
Hashable(v) == v.t \notin {"list", "dict"}

\* what a call gives: a value, or an exception
Value(v) == [ok |-> TRUE, v |-> v]
Throw(exc) == [ok |-> FALSE, exc |-> exc]

\* the first record of a name kept
RECURSIVE IndexList_KeepFirst(_, _)
IndexList_KeepFirst(items, out) ==
  IF items = <<>> THEN Value(out)
  ELSE IF Head(items).t = "dict" /\ DictHas(Head(items).items, "project_name")
  THEN IF Hashable(DictGet(Head(items).items, "project_name", PyNone))
       THEN IndexList_KeepFirst(Tail(items),
              IF DictHas(out, DictGet(Head(items).items, "project_name", PyNone))
              THEN out
              ELSE DictSet(out, DictGet(Head(items).items, "project_name", PyNone),
                           Head(items)))
       ELSE Throw("TypeError")
  ELSE IndexList_KeepFirst(Tail(items), out)

\* lines 83-88: the list indexed by project_name, a later record replacing an
\* earlier one of the same name; a name that cannot be hashed raises
RECURSIVE IndexList(_, _)
IndexList(items, out) ==
  IF items = <<>> THEN Value(out)
  ELSE IF Head(items).t = "dict" /\ DictHas(Head(items).items, "project_name")
  THEN IF Hashable(DictGet(Head(items).items, "project_name", PyNone))
       THEN IndexList(Tail(items),
                      DictSet(out, DictGet(Head(items).items, "project_name", PyNone),
                              Head(items)))
       ELSE Throw("TypeError")
  ELSE IndexList(Tail(items), out)

\* line 90: the entries whose value is a dict
DictValued(items) ==
  LET kept == SelectSeq(items, LAMBDA e : e.v.t = "dict")
  IN  [i \in 1..Len(kept) |-> [k |-> PyText(kept[i].k), v |-> kept[i].v]]

\* _index_by_project_name(obj): the mapping from project name to record, as
\* its items in insertion order
IndexByProjectName(obj) ==
  IF obj.t = "dict" /\ DictHas(obj.items, "project_name")
  THEN IF Hashable(DictGet(obj.items, "project_name", PyNone))
       THEN Value(<< [k |-> DictGet(obj.items, "project_name", PyNone), v |-> obj] >>)
       ELSE Throw("TypeError")
  ELSE IF obj.t = "list" THEN IndexList(obj.items, <<>>)
  ELSE IF obj.t = "dict" THEN Value(DictValued(obj.items))
  ELSE Value(<<>>)

EmptyDict == PyDict(<<>>)
EmptyText == PyText("")

\* d.get(names[1]) or d.get(names[2]) or ... or last
RECURSIVE GetOr(_, _, _)
GetOr(d, names, last) ==
  IF names = <<>> THEN last
  ELSE IF Truthy(DictGet(d.items, Head(names), PyNone))
  THEN DictGet(d.items, Head(names), PyNone)
  ELSE GetOr(d, Tail(names), last)

\* lines 107-111: eva
ExampleMetrics(eva_by) ==
  IF eva_by # <<>> THEN DictGet(eva_by[1].v.items, "metrics", EmptyDict) ELSE EmptyDict

\* lines 118-122: prf
ExampleIntake(prf_by) == IF prf_by # <<>> THEN prf_by[1].v ELSE EmptyDict

\* line 103: staff
StaffOf(staff_info) ==
  IF staff_info.t = "dict" THEN staff_info
  ELSE PyDict(<< [k |-> "raw", v |-> staff_info] >>)

\* line 113: metric_entry
MetricEntry(eva, submetric_label) == GetOr(eva, <<submetric_label>>, EmptyDict)

\* an empty name when there is no example
ExampleProjectName_Blank(eva_by) == IF eva_by # <<>> THEN eva_by[1].k ELSE EmptyText

\* line 138: example_project_name
ExampleProjectName(eva_by) ==
  IF eva_by # <<>> THEN eva_by[1].k ELSE PyText("Example Project")

\* lines 113-151 for an eva that is a dict: .get on a value that is no dict
\* raises AttributeError
KwargsOfExample(submetric_label, eva, eva_by, prf, staff) ==
  IF \/ MetricEntry(eva, submetric_label).t # "dict"
     \/ DictGet(eva.items, "Business Value Contribution", EmptyDict).t # "dict"
     \/ DictGet(eva.items, "Scalability & Replicability Potential", EmptyDict).t # "dict"
  THEN Throw("AttributeError")
  ELSE Value(
    [past_project_name |-> ExampleProjectName(eva_by),
     past_project_company |-> GetOr(prf, <<"company", "business_unit">>, EmptyText),
     past_project_scope_and_objectives |->
       GetOr(prf, <<"Project Scope & Objectives", "scope", "objectives">>, EmptyText),
     past_project_business_value_contribution |->
       DictGet(DictGet(eva.items, "Business Value Contribution", EmptyDict).items,
               "evaluation", EmptyText),
     past_project_scalability_data_scope |->
       DictGet(DictGet(eva.items, "Scalability & Replicability Potential", EmptyDict).items,
               "evaluation", EmptyText),
     past_project_data_scope |-> GetOr(prf, <<"data_scope", "data_sources">>, EmptyText),
     past_project_stakeholders |->
       GetOr(prf, <<"Project Stakeholders & Sponsorship", "team">>, EmptyText),
     past_metric_evaluation |->
       DictGet(MetricEntry(eva, submetric_label).items, "evaluation", EmptyText),
     past_metric_score |->
       DictGet(MetricEntry(eva, submetric_label).items, "score", EmptyText),
     current_stuff |-> GetOr(staff, <<"current_stuff", "staff">>, staff)])

\* lines 105-151 for the two indexed corpora
KwargsOfIndexed(submetric_label, eva_by, prf_by, staff) ==
  IF ExampleMetrics(eva_by).t # "dict" THEN Throw("AttributeError")
  ELSE KwargsOfExample(submetric_label, ExampleMetrics(eva_by), eva_by,
                       ExampleIntake(prf_by), staff)

\* the record of the project under evaluation put first
OwnFirst(by, project_name) ==
  SelectSeq(by, LAMBDA e : e.k = project_name) \o SelectSeq(by, LAMBDA e : e.k # project_name)

\* the project's own record as the example
BuildPromptKwargs_OwnRecord(project_name, submetric_label, evaulations, prf_answers, staff_info) ==
  IF ~IndexByProjectName(evaulations).ok THEN IndexByProjectName(evaulations)
  ELSE IF ~IndexByProjectName(prf_answers).ok THEN IndexByProjectName(prf_answers)
  ELSE KwargsOfIndexed(submetric_label,
                       OwnFirst(IndexByProjectName(evaulations).v, project_name),
                       IndexByProjectName(prf_answers).v, StaffOf(staff_info))

\* _build_prompt_kwargs(project_name, submetric_label, evaulations,
\* prf_answers, staff_info)
BuildPromptKwargs(project_name, submetric_label, evaulations, prf_answers, staff_info) ==
  IF ~IndexByProjectName(evaulations).ok THEN IndexByProjectName(evaulations)
  ELSE IF ~IndexByProjectName(prf_answers).ok THEN IndexByProjectName(prf_answers)
  ELSE KwargsOfIndexed(submetric_label, IndexByProjectName(evaulations).v,
                       IndexByProjectName(prf_answers).v, StaffOf(staff_info))

\* x or {}
OrEmptyDict(x) == IF Truthy(x) THEN x ELSE EmptyDict

(***************************************************************************)
(* prompts.py: the catalog SUBMETRIC_PROMPTS in declaration order.  A      *)
(* prompt is its key, its name and the placeholders of its template.       *)
(***************************************************************************)
SubmetricPrompt(key, name, fields) == [key |-> key, name |-> name, fields |-> fields]

PastFields == {"project_text", "past_project_name", "past_metric_evaluation", "past_metric_score"}

SUBMETRIC_PROMPTS == <<
  [metric |-> "business_impact", label |-> "Strategic Fit",
   prompt |-> SubmetricPrompt("strategic_fit", "Strategic Fit",
     PastFields \cup {"past_project_company", "past_project_scope_and_objectives"})],
  [metric |-> "business_impact", label |-> "Business Value Contribution",
   prompt |-> SubmetricPrompt("business_value", "Business Value Contribution",
     PastFields \cup {"past_project_business_value_contribution"})],
  [metric |-> "business_impact", label |-> "Scalability & Replicability Potential",
   prompt |-> SubmetricPrompt("scalability", "Scalability",
     PastFields \cup {"past_project_scalability_data_scope"})],
  [metric |-> "resource_investment", label |-> "Projected Timeline",
   prompt |-> SubmetricPrompt("duration_complexity", "Projected Timeline",
     PastFields \cup {"past_project_data_scope"})],
  [metric |-> "resource_investment", label |-> "Estimated Person-Day Effort",
   prompt |-> SubmetricPrompt("team_footprint", "Team Footprint",
     {"project_text", "current_stuff"})],
  [metric |-> "execution_risk", label |-> "External Resource Dependency",
   prompt |-> SubmetricPrompt("external_dependence", "External Dependence",
     PastFields \cup {"past_project_data_scope", "past_project_stakeholders"})],
  [metric |-> "execution_risk", label |-> "Scope Definition Risk",
   prompt |-> SubmetricPrompt("scope_definition", "Scope Definition",
     PastFields \cup {"past_project_data_scope", "past_project_scope_and_objectives"})],
  [metric |-> "execution_risk", label |-> "Critical Talent Dependency",
   prompt |-> SubmetricPrompt("critical_talent", "Critical Talent",
     PastFields \cup {"current_stuff", "past_project_scope_and_objectives"})],
  [metric |-> "execution_risk", label |-> "Solution Complexity & Innovation Risk",
   prompt |-> SubmetricPrompt("innovation_complexity", "Innovation Complexity",
     PastFields \cup {"past_project_scope_and_objectives"})],
  [metric |-> "execution_risk", label |-> "Implementation Failure Risk",
   prompt |-> SubmetricPrompt("implementation_failure", "Implementation Failure",
     PastFields \cup {"past_project_scope_and_objectives"})] >>

\* SUBMETRIC_PROMPTS.get((metric, label)): the entry's index, 0 for None
CatalogIndex(metric, label) ==
  IF \E i \in 1..Len(SUBMETRIC_PROMPTS) :
       SUBMETRIC_PROMPTS[i].metric = metric /\ SUBMETRIC_PROMPTS[i].label = label
  THEN CHOOSE i \in 1..Len(SUBMETRIC_PROMPTS) :
       SUBMETRIC_PROMPTS[i].metric = metric /\ SUBMETRIC_PROMPTS[i].label = label
  ELSE 0

\* SubmetricPrompt.render: str.format raises KeyError for a placeholder that
\* is neither project_text nor a keyword argument
RenderOk(prompt, kwargs) == prompt.fields \subseteq ({"project_text"} \cup kwargs)

(***************************************************************************)
(* evaluators.py: the evaluators                                           *)
(***************************************************************************)
Evaluator(metric_id, submetric_keys) ==
  [metric_id |-> metric_id, submetric_keys |-> submetric_keys]

ImpactEvaluator ==
  Evaluator("business_impact",
    <<"Strategic Fit", "Business Value Contribution", "Scalability & Replicability Potential">>)

EffortEvaluator ==
  Evaluator("resource_investment",
    <<"Projected Timeline", "Estimated Person-Day Effort", "External Resource Dependency">>)

RiskEvaluator ==
  Evaluator("execution_risk",
    <<"Scope Definition Risk", "Critical Talent Dependency",
      "Solution Complexity & Innovation Risk", "Implementation Failure Risk">>)

\* key.replace("_", " ").title() on the keys that have no catalog entry
PlaceholderName(key) ==
  CASE key = "data_quality" -> "Data Quality"
    [] key = "team_fit" -> "Team Fit"
    [] key = "External Resource Dependency" -> "External Resource Dependency"

\* a made-up prompt whose template has a placeholder of its own
PlaceholderPrompt_WithContext(key) ==
  SubmetricPrompt(key, PlaceholderName(key), {"project_text", "context"})

\* the prompt evaluate() makes up for a key without catalog entry
PlaceholderPrompt(key) == SubmetricPrompt(key, PlaceholderName(key), {"project_text"})

\* the names of the mapping _build_prompt_kwargs returns
KwargNames ==
  {"past_project_name", "past_project_company", "past_project_scope_and_objectives",
   "past_project_business_value_contribution", "past_project_scalability_data_scope",
   "past_project_data_scope", "past_project_stakeholders", "past_metric_evaluation",
   "past_metric_score", "current_stuff"}

\* a resolution that is made whatever the arguments
ScoreOneKwargs_Always(project_name, submetric_label, sources) ==
  BuildPromptKwargs(project_name, submetric_label, OrEmptyDict(sources[1]),
                    OrEmptyDict(sources[2]), OrEmptyDict(sources[3]))

\* the keyword arguments _score_one renders with, or the exception their
\* resolution raises
ScoreOneKwargs(project_name, submetric_label, sources) ==
  IF project_name # PyNone /\ \E k \in 1..3 : sources[k] # PyNone
  THEN BuildPromptKwargs(project_name, submetric_label, OrEmptyDict(sources[1]),
                         OrEmptyDict(sources[2]), OrEmptyDict(sources[3]))
  ELSE Value(<<>>)

\* _score_one up to its backend call: the exception it raises, if any
StartException(task, project_name, sources) ==
  IF ~task.with_sources
  THEN IF RenderOk(task.prompt, {}) THEN "none" ELSE "KeyError"
  ELSE IF ~ScoreOneKwargs(project_name, task.label, sources).ok
  THEN ScoreOneKwargs(project_name, task.label, sources).exc
  ELSE IF RenderOk(task.prompt, DOMAIN ScoreOneKwargs(project_name, task.label, sources).v)
  THEN "none" ELSE "KeyError"

LLMErrorPrefix == <<"L","L","M"," ","e","r","r","o","r",":"," ">>
LLMErrorSuffix == <<";"," ","d","e","f","a","u","l","t","e","d"," ","t","o"," ","3",".","0",".">>

\* an except branch that defaults without the message of the exception
BackendResp_Unnamed(outcome) ==
  IF outcome.kind = "raise"
  THEN RespDict(Three, PyStr(NoReason))
  ELSE NormalizeLLMResponse(outcome.raw)

\* what the backend call of _score_one leaves in resp: the normalized reply,
\* or the default of the except branch
BackendResp(outcome) ==
  IF outcome.kind = "raise"
  THEN RespDict(Three, PyStr(LLMErrorPrefix \o outcome.msg \o LLMErrorSuffix))
  ELSE NormalizeLLMResponse(outcome.raw)

\* the result _score_one returns for the prompt, given resp
SubResult(prompt, resp) ==
  LET score == CoerceScore(resp.score_1_to_5)
      reason == IF resp.reason.t # "str" \/ Strip(resp.reason.s) = <<>>
                THEN NoReason ELSE resp.reason.s
  IN  [key |-> prompt.key, name |-> prompt.name, score |-> score.m, reason |-> Strip(reason)]

(***************************************************************************)
(* evaluators.py: aggregation (evaluate, evaluate_with_sources)            *)
(***************************************************************************)
BalancedReason ==
  <<"B","a","l","a","n","c","e","d"," ","a","c","r","o","s","s"," ","s","u","b","m","e","t","r","i","c","s",".">>

\* overall_reason[:240]
ReasonLimit == 240

RECURSIVE SumScores(_)
SumScores(subs) == IF subs = <<>> THEN 0 ELSE Head(subs).score + SumScores(Tail(subs))

\* the sum formatted without the division by the count
MeanRound2_NoDivide(sum, n, tie) == sum

\* the mean cut to two decimals instead of rounded
MeanRound2_Truncate(sum, n, tie) == 10 * ((sum \div 10) \div n)

\* float(f"{sum / n:.2f}") for a sum of 2-decimal scores; tie says on which
\* side of an exact decimal tie the computed double lies
MeanRound2(sum, n, tie) ==
  LET h == sum \div 10
      q == h \div n
      r == h % n
      up == 2 * r > n \/ (2 * r = n /\ tie > 0)
  IN  10 * (IF up THEN q + 1 ELSE q)

\* the dict with the joined reasons at full length
MetricResult_NoTruncation(metric_id, sub_results, tie) ==
  LET overall == IF sub_results # <<>>
                 THEN MeanRound2(SumScores(sub_results), Len(sub_results), tie)
                 ELSE Round2(Three).m
      reasons == [k \in 1..Len(sub_results) |-> sub_results[k].reason]
      joined == Join(Prefix(reasons, 2), <<" ">>)
  IN  [metric |-> metric_id,
       overall_score |-> overall,
       band |-> Band(overall),
       overall_reason |-> IF joined = <<>> THEN BalancedReason ELSE joined,
       submetrics |-> sub_results]

\* the dict evaluate and evaluate_with_sources return
MetricResult(metric_id, sub_results, tie) ==
  LET overall == IF sub_results # <<>>
                 THEN MeanRound2(SumScores(sub_results), Len(sub_results), tie)
                 ELSE Round2(Three).m
      reasons == [k \in 1..Len(sub_results) |-> sub_results[k].reason]
      firstTwo == Prefix(reasons, 2)
      joined == Join([k \in 1..Len(firstTwo) |-> Strip(firstTwo[k])], <<" ">>)
      overall_reason == IF joined = <<>> THEN BalancedReason ELSE joined
  IN  [metric |-> metric_id,
       overall_score |-> overall,
       band |-> Band(overall),
       overall_reason |-> Prefix(overall_reason, ReasonLimit),
       submetrics |-> sub_results]

\* the results in the order in which the awaitables completed
GatherResults_AsCompleted(results, completion) ==
  [k \in 1..Len(completion) |-> results[completion[k]]]

\* a wait that ends with the first awaitable that is done
AllDone_AnyDone(st) == \E i \in 1..Len(st) : st[i] = "done"

\* await asyncio.gather(...): the caller resumes when every awaitable is done
AllDone(st) == \A i \in 1..Len(st) : st[i] = "done"

\* the list asyncio.gather hands back: the results in the order of the
\* awaitables, whatever the order in which they completed
GatherResults(results, completion) == results

\* prompts_for_metric of evaluate_with_sources
PromptsForMetric(metric_id) ==
  LET entries == SelectSeq(SUBMETRIC_PROMPTS, LAMBDA e : e.metric = metric_id)
  IN  [k \in 1..Len(entries) |->
         [label |-> entries[k].label, prompt |-> entries[k].prompt, with_sources |-> TRUE]]

\* prompts of evaluate: the catalog entry of each key, or a placeholder
EvaluatePrompts(ev) ==
  [k \in 1..Len(ev.submetric_keys) |->
     LET key == ev.submetric_keys[k]
         i == CatalogIndex(ev.metric_id, key)
     IN  [label |-> key,
          prompt |-> IF i = 0 THEN PlaceholderPrompt(key) ELSE SUBMETRIC_PROMPTS[i].prompt,
          with_sources |-> FALSE]]

(***************************************************************************)
(* The backend: what a call of llm.complete can do.                        *)
(***************************************************************************)
Returned(raw) == [kind |-> "return", raw |-> raw]
Raised(msg) == [kind |-> "raise", msg |-> msg]

\* length of the long reasons
LongLen == 150

Rep(c, n) == [k \in 1..n |-> c]

Rec(scoreKey, score, reason) ==
  PyDict(<< [k |-> scoreKey, v |-> score], [k |-> ReasonKey, v |-> PyStr(reason)] >>)

Outcomes == <<
  Returned(Rec(ScoreKey, PyNum(4000, 0), <<" ","g","o","o","d">>)),
  Returned(PyStr(JsonDumps(Rec(ScoreKey, PyNum(2500, 0), <<"f","i","n","e">>)))),
  Raised(<<"t","i","m","e","o","u","t">>),
  Returned(Rec(ScoreKey, PyNum(2490, 0), <<"o","k"," ">>)),
  Returned(Rec(<<"\"">> \o ScoreKey \o <<"\"">>, PyNum(3660, 0), Rep("a", LongLen))),
  Returned(PyList(<< Rec(ScoreKey, PyNum(3670, 0), Rep("b", LongLen)) >>)),
  Returned(Rec(ScoreKey, PyNum(2000, 0), <<"w","e","a","k">>)),
  Returned(PyDict(<< [k |-> ScoreKey, v |-> PyNum(7000, 0)] >>)),
  Returned(PyStr(<<"S","u","r","e","!"," ","4">>)) >>

\* a backend whose calls never end
OutcomesOf_NeverEnds(client) == {}

\* a backend that answers in any order is given the first three outcomes, one
\* that answers in request order all of them
OutcomesOf(client) == IF client = "any_order" THEN 1..3 ELSE 1..Len(Outcomes)

\* resp of _score_one for each outcome
RespTable == [k \in 1..Len(Outcomes) |-> BackendResp(Outcomes[k])]

\* _score_one from the backend call on
ScoreOne(prompt, k) == SubResult(prompt, RespTable[k])

(***************************************************************************)
(* State                                                                   *)
(***************************************************************************)
VARIABLES
  llm,          \* the backend of the evaluator: how its replies are ordered
  evaluator,    \* the evaluator: metric_id and submetric_keys
  pc,           \* the caller: idle, resolved, dispatched, joined, aggregated, failed
  call,         \* the call: method, project_name, sources
  tasks,        \* the _score_one coroutines handed to gather, in order
  status,       \* of each: created, awaiting, done, raised
  reply,        \* of each: the outcome of its backend call (0: none yet)
  sub,          \* of each: the result it returned
  order,        \* the tasks in the order they completed
  sub_results,  \* the list gather gave to the caller
  error,        \* the exception the call raised
  result,       \* the MetricResult the call returned
  nraw,         \* a reply given to the normalizer alone
  nresp,        \* what the normalizer made of it
  arg,          \* the arguments of another function called alone
  ret           \* what it gave

vars == <<llm, evaluator, pc, call, tasks, status, reply, sub, order, sub_results,
          error, result, nraw, nresp, arg, ret>>

evalVars == <<llm, evaluator, pc, call, tasks, status, reply, sub, order, sub_results,
              error, result>>

NoCall == [method |-> "none", project_name |-> PyNone, sources |-> <<PyNone, PyNone, PyNone>>]
NoSub == [key |-> "", name |-> "", score |-> 0, reason |-> <<>>]
NoResult == [metric |-> "", overall_score |-> 0, band |-> "", overall_reason |-> <<>>,
             submetrics |-> <<>>]
NoResp == RespDict(PyNone, PyNone)
NoArg == [fn |-> "none"]
NoRet == [fn |-> "none"]

CustomKeyLists == { <<>>, <<"data_quality">>, <<"data_quality", "team_fit">> }

Evaluators ==
  {ImpactEvaluator, EffortEvaluator, RiskEvaluator}
    \cup {Evaluator("custom_metric", ks) : ks \in CustomKeyLists}

ProjectNames == {PyNone, PyStr(<<"P","1">>)}
\* evaluations whose metrics are text, and a list whose project_name is a list
OddMetrics ==
  PyDict(<< [k |-> "Alpha", v |-> PyDict(<< [k |-> "metrics", v |-> PyText("n/a")] >>)] >>)
OddName ==
  PyList(<< PyDict(<< [k |-> "project_name", v |-> PyList(<< PyText("Alpha") >>)] >>) >>)

SourceTriples ==
  { <<PyNone, PyNone, PyNone>>,
    <<PyDict(<<>>), PyDict(<<>>), PyDict(<<>>)>>,
    <<OddMetrics, PyDict(<<>>), PyDict(<<>>)>>,
    <<PyDict(<<>>), OddName, PyNone>> }

Init ==
  /\ llm \in {"in_order", "any_order"}
  /\ evaluator \in Evaluators
  /\ pc = "idle"
  /\ call = NoCall
  /\ tasks = <<>>
  /\ status = <<>>
  /\ reply = <<>>
  /\ sub = <<>>
  /\ order = <<>>
  /\ sub_results = <<>>
  /\ error = "none"
  /\ result = NoResult
  /\ nraw = PyNone
  /\ nresp = NoResp
  /\ arg = NoArg
  /\ ret = NoRet

(***************************************************************************)
(* Actions                                                                 *)
(***************************************************************************)
\* the call up to its await of asyncio.gather
Dispatch(method, project_name, sources, ts) ==
  /\ pc = "idle"
  /\ pc' = IF ts = <<>> THEN "dispatched" ELSE "resolved"
  /\ call' = [method |-> method, project_name |-> project_name, sources |-> sources]
  /\ tasks' = ts
  /\ status' = [k \in 1..Len(ts) |-> "created"]
  /\ reply' = [k \in 1..Len(ts) |-> 0]
  /\ sub' = [k \in 1..Len(ts) |-> NoSub]
  /\ UNCHANGED <<llm, evaluator, order, sub_results, error, result, nraw, nresp, arg, ret>>

\* evaluate_with_sources(project_name, project_text, evaulations, prf_answers,
\* staff_info); without catalog prompts for the metric it is evaluate
EvaluateWithSources ==
  \E project_name \in ProjectNames, sources \in SourceTriples :
    LET ps == PromptsForMetric(evaluator.metric_id)
    IN  Dispatch("evaluate_with_sources", project_name, sources,
                 IF ps = <<>> THEN EvaluatePrompts(evaluator) ELSE ps)

\* evaluate(project_text)
Evaluate ==
  Dispatch("evaluate", PyNone, <<PyNone, PyNone, PyNone>>, EvaluatePrompts(evaluator))

\* the event loop runs task i up to its backend call: tasks start in the
\* order gather was given them; a failed render ends the task
StartTask(i) ==
  /\ i \in 1..Len(tasks)
  /\ status[i] = "created"
  /\ \A j \in 1..(i - 1) : status[j] # "created"
  /\ status' = [status EXCEPT ![i] =
                  IF StartException(tasks[i], call.project_name, call.sources) = "none"
                  THEN "awaiting" ELSE "raised"]
  /\ pc' = IF pc = "resolved" /\ i = Len(tasks) THEN "dispatched" ELSE pc
  /\ UNCHANGED <<llm, evaluator, call, tasks, reply, sub, order, sub_results, error,
                 result, nraw, nresp, arg, ret>>

\* a task that calls the backend again when it raised
StatusAfterCall_Retry(outcome) == IF outcome.kind = "raise" THEN "awaiting" ELSE "done"

\* lines 184-205: whether the call returned or raised, the task goes on to its
\* return; the backend is not called again
StatusAfterCall(outcome) == "done"

\* the backend call of task i ends with outcome k; the task runs to its return
Complete(i, k) ==
  /\ i \in 1..Len(tasks)
  /\ status[i] = "awaiting"
  /\ k \in OutcomesOf(llm)
  /\ llm = "in_order" => \A j \in 1..(i - 1) : status[j] # "awaiting"
  /\ status' = [status EXCEPT ![i] = StatusAfterCall(Outcomes[k])]
  /\ reply' = [reply EXCEPT ![i] = k]
  /\ sub' = [sub EXCEPT ![i] = ScoreOne(tasks[i].prompt, k)]
  /\ order' = Append(order, i)
  /\ UNCHANGED <<llm, evaluator, pc, call, tasks, sub_results, error, result, nraw, nresp, arg, ret>>

\* llm.complete returns a reply
BackendReturns == \E i \in 1..Len(tasks), k \in 1..Len(Outcomes) :
  Outcomes[k].kind = "return" /\ Complete(i, k)

\* llm.complete raises
BackendRaises == \E i \in 1..Len(tasks), k \in 1..Len(Outcomes) :
  Outcomes[k].kind = "raise" /\ Complete(i, k)

\* every task has returned: gather's future gets the list of results
GatherResolves ==
  /\ pc = "dispatched"
  /\ AllDone(status)
  /\ pc' = "joined"
  /\ sub_results' = GatherResults(sub, order)
  /\ UNCHANGED <<llm, evaluator, call, tasks, status, reply, sub, order, error, result,
                 nraw, nresp, arg, ret>>

\* the first of the awaitables to have raised
FirstRaised(st) ==
  CHOOSE i \in 1..Len(st) : st[i] = "raised" /\ \A j \in 1..(i - 1) : st[j] # "raised"

\* a gather that cancels the awaitables that have not ended
SiblingsAfterRaise_Cancelled(st) ==
  [i \in 1..Len(st) |-> IF st[i] \in {"created", "awaiting"} THEN "cancelled" ELSE st[i]]

\* asyncio.gather without return_exceptions: when an awaitable raises, the
\* others are left as they are
SiblingsAfterRaise(st) == st

\* a task has raised: gather passes the exception on to the caller, the other
\* tasks go on
GatherRaises ==
  /\ pc \in {"resolved", "dispatched"}
  /\ \E i \in 1..Len(tasks) : status[i] = "raised"
  /\ pc' = "failed"
  /\ error' = StartException(tasks[FirstRaised(status)], call.project_name, call.sources)
  /\ status' = SiblingsAfterRaise(status)
  /\ UNCHANGED <<llm, evaluator, call, tasks, reply, sub, order, sub_results,
                 result, nraw, nresp, arg, ret>>

\* the caller resumes with the list and returns the MetricResult
Aggregate ==
  /\ pc = "joined"
  /\ \E tie \in {-1, 1} : result' = MetricResult(evaluator.metric_id, sub_results, tie)
  /\ pc' = "aggregated"
  /\ UNCHANGED <<llm, evaluator, call, tasks, status, reply, sub, order, sub_results,
                 error, nraw, nresp, arg, ret>>

Next ==
  \/ EvaluateWithSources
  \/ Evaluate
  \/ \E i \in 1..Len(tasks) : StartTask(i)
  \/ BackendReturns
  \/ BackendRaises
  \/ GatherResolves
  \/ GatherRaises
  \/ Aggregate

Spec == Init /\ [][Next]_vars

(***************************************************************************)
(* The normalizer alone: a reply is drawn and normalized.                  *)
(***************************************************************************)
\* no such field in the record
Absent == [t |-> "absent"]

ScoreFields ==
  { PyNum(4256, 0), PyNum(1000, 0), PyNum(5000, 0), PyNum(4999, 0), PyNum(1004, 0),
    PyNum(2675, -1), PyNum(2675, 1), PyNum(2665, 1), PyNum(2125, 0), PyNum(2375, 0),
    PyNum(5000, 1), PyNum(1000, -1), PyNum(999, 0), PyNum(5001, 0),
    PyNum(0, 0), PyNum(-3000, 0), PyNum(7000, 0), PyNaN, PyInf,
    PyBool(TRUE), PyNone, PyList(<<>>),
    PyStr(<<"4", ".", "5">>), PyStr(<<" ", "2", ".", "5", " ">>), PyStr(<<"9">>),
    PyStr(<<"a", "b", "c">>), PyStr(<<>>),
    Absent }

ReasonFields ==
  { PyStr(<<"o", "k">>), PyStr(<<" ", "f", "i", "n", "e", " ", "\n">>),
    PyStr(<<"a", " ", "\"", "q", "\"">>),
    PyStr(<<" ", " ">>), PyStr(<<>>), PyNone, PyNum(5000, 0),
    Absent }

\* the score key as backends write it: plain, in double quotes, in single
\* quotes after a space
ScoreKeyStyles ==
  { ScoreKey, <<"\"">> \o ScoreKey \o <<"\"">>, <<" ", "'">> \o ScoreKey \o <<"'">> }

Field(k, v) == IF v = Absent THEN <<>> ELSE << [k |-> k, v |-> v] >>

NormRecords ==
  { PyDict(Field(k, sc) \o Field(ReasonKey, rs)) :
      k \in ScoreKeyStyles, sc \in ScoreFields, rs \in ReasonFields }
  \cup
  \* two keys that clean to the same name: the later one counts
  { PyDict(<< [k |-> <<"\"">> \o ScoreKey \o <<"\"">>, v |-> PyNum(2000, 0)],
              [k |-> ReasonKey, v |-> PyStr(<<"o", "k">>)],
              [k |-> ScoreKey, v |-> sc] >>) : sc \in {PyNum(4000, 0), PyNum(9000, 0)} }

Fence == <<Backtick, Backtick, Backtick>>

\* the shapes in which a backend delivers the record
Deliveries(rec) ==
  LET text == JsonDumps(rec)
  IN  { rec,
        PyList(<<rec>>),
        PyList(<<rec, PyNum(1000, 0)>>),
        PyList(<<PyNone, rec>>),
        PyStr(text),
        PyStr(<<"\n", " ">> \o text \o <<" ", "\n">>),
        PyStr(JsonDumps(PyList(<<rec>>))),
        PyStr(Fence \o <<"j", "s", "o", "n", "\n">> \o text \o <<"\n">> \o Fence),
        PyStr(<<"S", "u", "r", "e", ":", " ">> \o text),
        PyStr(SubSeq(text, 1, Len(text) - 1)),
        PyBytes(text),
        PyBytes(<<BadByte>> \o Prefix(text, 1) \o <<BadByte>> \o SubSeq(text, 2, Len(text))) }

NormInputs ==
  UNION { Deliveries(rec) : rec \in NormRecords }
    \cup { PyNone, PyOther, PyBool(TRUE), PyNum(4000, 0), PyList(<<>>), PyDict(<<>>),
           PyStr(<<>>), PyStr(<<"4">>), PyStr(LitNull), PyStr(<<"\"", "x", "\"">>),
           PyStr(<<"[", "]">>), PyStr(<<"{", "}">>), PyBytes(<<>>), PyBytes(<<BadByte>>) }

NormInit ==
  /\ nraw \in NormInputs
  /\ nresp = NoResp
  /\ arg = NoArg
  /\ ret = NoRet
  /\ llm = "in_order"
  /\ evaluator = ImpactEvaluator
  /\ pc = "idle"
  /\ call = NoCall
  /\ tasks = <<>>
  /\ status = <<>>
  /\ reply = <<>>
  /\ sub = <<>>
  /\ order = <<>>
  /\ sub_results = <<>>
  /\ error = "none"
  /\ result = NoResult

\* _normalize_llm_response(nraw)
Normalize ==
  /\ nresp = NoResp
  /\ nresp' = NormalizeLLMResponse(nraw)
  /\ UNCHANGED <<nraw, arg, ret, llm, evaluator, pc, call, tasks, status, reply, sub,
                 order, sub_results, error, result>>

NormNext == Normalize

NormSpec == NormInit /\ [][NormNext]_vars

(***************************************************************************)
(* Properties of the normalizer                                            *)
(***************************************************************************)
\* r is s without its leading and trailing whitespace
IsTrimOf(s, r) ==
  \E i \in 0..Len(s), j \in 0..Len(s) :
    /\ i <= j
    /\ r = SubSeq(s, i + 1, j)
    /\ \A k \in 1..i : s[k] \in Whitespace
    /\ \A k \in (j + 1)..Len(s) : s[k] \in Whitespace
    /\ r # <<>> => r[1] \notin Whitespace /\ r[Len(r)] \notin Whitespace

NonBlank(s) == \E k \in 1..Len(s) : s[k] \notin Whitespace

\* r thousandths is the float f rounded to two decimals
IsRounded2(f, r) ==
  /\ r % 10 = 0
  /\ r - f.m \in -5..5
  /\ r - f.m = 5 => f.e >= 0
  /\ r - f.m = -5 => f.e <= 0

\* the float f lies in [1.0, 5.0]
Within1To5(f) ==
  /\ f.t = "num"
  /\ f.m >= 1000 /\ (f.m = 1000 => f.e >= 0)
  /\ f.m <= 5000 /\ (f.m = 5000 => f.e <= 0)

\* the record a structured reply stands for: the record itself, or the one
\* its text parses to
IsRecordReply(raw) ==
  \/ raw.t = "dict"
  \/ raw.t = "str" /\ JsonLoads(raw.s).ok /\ JsonLoads(raw.s).v.t = "dict"

RecordOf(raw) == IF raw.t = "dict" THEN raw ELSE JsonLoads(raw.s).v

\* the positions of the record whose field name, without surrounding quotes
\* and spaces, is name
FieldPositions(rec, name) ==
  {i \in 1..Len(rec.items) : StripChars(rec.items[i].k, {" ", "'", "\""}) = name}

\* at most one field of each of the two names
Unambiguous(rec) ==
  /\ Cardinality(FieldPositions(rec, ScoreKey)) <= 1
  /\ Cardinality(FieldPositions(rec, ReasonKey)) <= 1

HasField(rec, name) == FieldPositions(rec, name) # {}
FieldValue(rec, name) == rec.items[CHOOSE i \in FieldPositions(rec, name) : TRUE].v

\* the score field is a number, or coerces to one, that lies in [1, 5]
ValidScoreField(rec) ==
  /\ HasField(rec, ScoreKey)
  /\ PyFloat(FieldValue(rec, ScoreKey)).ok
  /\ Within1To5(PyFloat(FieldValue(rec, ScoreKey)).v)

\* the reason field is a non-blank string
ValidReasonField(rec) ==
  /\ HasField(rec, ReasonKey)
  /\ FieldValue(rec, ReasonKey).t = "str"
  /\ NonBlank(FieldValue(rec, ReasonKey).s)

Normalized == nresp # NoResp

\* C1: for every raw reply the normalizer returns a pair whose score is a
\* number in [1.0, 5.0] and whose reason is a non-blank trimmed string.
C1_NormalizeTotal ==
  Normalized =>
    /\ nresp.score_1_to_5.t = "num"
    /\ nresp.score_1_to_5.m \in 1000..5000
    /\ nresp.score_1_to_5.e = 0
    /\ nresp.reason.t = "str"
    /\ NonBlank(nresp.reason.s)
    /\ IsTrimOf(nresp.reason.s, nresp.reason.s)

\* bytes with undecodable bytes that hold a valid record were normalized to
\* the values of the record
C1_Witness ==
  /\ Normalized
  /\ nraw.t = "bytes"
  /\ \E k \in 1..Len(nraw.s) : nraw.s[k] = BadByte
  /\ nresp = RespDict(PyNum(4260, 0), PyStr(<<"f", "i", "n", "e">>))

\* C2: for a structured reply (a record, or text that parses to one) whose
\* score field is numeric within [1, 5] and whose reason is a non-blank
\* string, the normalizer returns that score rounded to two decimals and
\* that reason trimmed.
C2_ValidReplyKept ==
  (Normalized /\ IsRecordReply(nraw)) =>
    LET rec == RecordOf(nraw)
    IN  (Unambiguous(rec) /\ ValidScoreField(rec) /\ ValidReasonField(rec)) =>
          /\ nresp.score_1_to_5.t = "num"
          /\ IsRounded2(PyFloat(FieldValue(rec, ScoreKey)).v, nresp.score_1_to_5.m)
          /\ IsTrimOf(FieldValue(rec, ReasonKey).s, nresp.reason.s)

\* a text reply with a quoted score key, a score that needs rounding and a
\* reason with surrounding whitespace was normalized
C2_Witness ==
  /\ Normalized
  /\ nraw.t = "str"
  /\ IsRecordReply(nraw)
  /\ Unambiguous(RecordOf(nraw))
  /\ \E i \in 1..Len(RecordOf(nraw).items) : RecordOf(nraw).items[i].k # ScoreKey
                                          /\ RecordOf(nraw).items[i].k # ReasonKey
  /\ ValidScoreField(RecordOf(nraw))
  /\ FieldValue(RecordOf(nraw), ScoreKey) = PyNum(4256, 0)
  /\ ValidReasonField(RecordOf(nraw))
  /\ FieldValue(RecordOf(nraw), ReasonKey).s # nresp.reason.s
  /\ nresp.score_1_to_5.m = 4260

\* C3: unparseable text, and a record whose score field is absent, not
\* numeric or outside [1.0, 5.0], get score 3.0 and a non-blank reason; such
\* a record keeps its own reason when that is a non-blank string.
C3_InvalidScoreDefaults ==
  /\ (Normalized /\ nraw.t = "str" /\ ~JsonLoads(nraw.s).ok) =>
        /\ nresp.score_1_to_5 = PyNum(3000, 0)
        /\ nresp.reason.t = "str" /\ NonBlank(nresp.reason.s)
  /\ (Normalized /\ IsRecordReply(nraw)) =>
        LET rec == RecordOf(nraw)
        IN  (Unambiguous(rec) /\ ~ValidScoreField(rec)) =>
              /\ nresp.score_1_to_5 = PyNum(3000, 0)
              /\ nresp.reason.t = "str" /\ NonBlank(nresp.reason.s)
              /\ ValidReasonField(rec) =>
                   IsTrimOf(FieldValue(rec, ReasonKey).s, nresp.reason.s)

\* a record with a score above 5 and a reason of its own was normalized
C3_Witness ==
  /\ Normalized
  /\ nraw.t = "dict"
  /\ Unambiguous(nraw)
  /\ HasField(nraw, ScoreKey)
  /\ FieldValue(nraw, ScoreKey) = PyNum(5000, 1)
  /\ ValidReasonField(nraw)
  /\ nresp = RespDict(PyNum(3000, 0), PyStr(<<"f", "i", "n", "e">>))

(***************************************************************************)
(* Properties of evaluate and evaluate_with_sources                        *)
(***************************************************************************)
Aggregated == pc = "aggregated"

\* the catalog prompts of the metric, in the order the catalog declares them
CatalogPromptsOf(metric_id) ==
  SelectSeq(SUBMETRIC_PROMPTS, LAMBDA e : e.metric = metric_id)

\* the first n characters of s
Take(s, n) == [k \in 1..(IF Len(s) < n THEN Len(s) ELSE n) |-> s[k]]

\* C4: every submetric score and the overall score of a returned MetricResult
\* lie in [1.0, 5.0], whatever the backend returned or raised.
C4_ScoresInRange ==
  Aggregated =>
    /\ result.overall_score \in 1000..5000
    /\ \A i \in 1..Len(result.submetrics) : result.submetrics[i].score \in 1000..5000

\* a result of three submetrics whose backend raised once, answered 7.0 once
\* and answered prose once
C4_Witness ==
  /\ Aggregated
  /\ Len(result.submetrics) = 3
  /\ \E i \in 1..3 : reply[i] = 3
  /\ \E i \in 1..3 : reply[i] = 8
  /\ \E i \in 1..3 : reply[i] = 9

C6_OverallIsRoundedMean ==
  Aggregated =>
    LET n == Len(result.submetrics)
        sum == SumScores(result.submetrics)
        d == n * result.overall_score - sum
    IN  IF n = 0 THEN result.overall_score = 3000
        ELSE /\ result.overall_score % 10 = 0
             /\ d <= 5 * n
             /\ -d <= 5 * n

\* the submetric scores 4.0, 2.0, 3.0 gave the overall score 3.0
C6_Witness ==
  /\ Aggregated
  /\ Len(result.submetrics) = 3
  /\ result.submetrics[1].score = 4000
  /\ result.submetrics[2].score = 2000
  /\ result.submetrics[3].score = 3000
  /\ result.overall_score = 3000

\* C7: the overall reason is the first two non-blank submetric reasons, in
\* submetric order, joined by one space and cut to 240 characters, or the
\* fallback phrase when there is none; it is at most 240 characters long.
C7_OverallReason ==
  Aggregated =>
    LET reasons == [k \in 1..Len(result.submetrics) |-> result.submetrics[k].reason]
        given == SelectSeq(reasons, NonBlank)
    IN  /\ Len(result.overall_reason) <= 240
        /\ result.overall_reason =
             IF Len(given) = 0 THEN BalancedReason
             ELSE IF Len(given) = 1 THEN Take(given[1], 240)
             ELSE Take(given[1] \o <<" ">> \o given[2], 240)

\* two long reasons were joined and cut
C7_Witness ==
  /\ Aggregated
  /\ Len(result.submetrics) >= 2
  /\ Len(result.submetrics[1].reason) + 1 + Len(result.submetrics[2].reason) > 240
  /\ result.submetrics[1].reason # result.submetrics[2].reason
  /\ Len(result.overall_reason) = 240

\* C8: whatever the order in which the backend calls of an
\* evaluate_with_sources call complete, the i-th submetric of the result is
\* the result of the i-th catalog prompt of the metric.
C8_CatalogOrder ==
  (Aggregated /\ call.method = "evaluate_with_sources"
     /\ CatalogPromptsOf(evaluator.metric_id) # <<>>) =>
    LET entries == CatalogPromptsOf(evaluator.metric_id)
    IN  /\ Len(result.submetrics) = Len(entries)
        /\ \A i \in 1..Len(entries) :
             /\ result.submetrics[i].key = entries[i].prompt.key
             /\ result.submetrics[i].name = entries[i].prompt.name
             /\ result.submetrics[i] = sub[i]

\* three calls with different replies completed in the reverse of the
\* catalog order
C8_Witness ==
  /\ Aggregated
  /\ call.method = "evaluate_with_sources"
  /\ Len(CatalogPromptsOf(evaluator.metric_id)) = 3
  /\ order = <<3, 2, 1>>
  /\ reply = <<1, 2, 3>>

\* the score and the reason each reply of the backend stands for (none for a
\* call that raised; a reply without a usable reason has none of its own)
ReplyScore == <<4000, 2500, 0, 2490, 3660, 3670, 2000, 3000, 3000>>

ReplyReason ==
  << <<"g","o","o","d">>, <<"f","i","n","e">>, <<>>, <<"o","k">>, Rep("a", LongLen),
     Rep("b", LongLen), <<"w","e","a","k">>, <<>>, <<>> >>

\* C9: when the backend call of a submetric raises, the result still has one
\* entry for each submetric: the failed one with score 3.0 and a reason
\* holding the message of the error, the others with the score and the reason
\* of their own replies.
C9_RaiseIsolated ==
  (Aggregated /\ \E i \in 1..Len(tasks) : Outcomes[reply[i]].kind = "raise") =>
    /\ Len(result.submetrics) = Len(tasks)
    /\ \A i \in 1..Len(tasks) :
         /\ result.submetrics[i].key = tasks[i].prompt.key
         /\ IF Outcomes[reply[i]].kind = "raise"
            THEN /\ result.submetrics[i].score = 3000
                 /\ result.submetrics[i].reason =
                      LLMErrorPrefix \o Outcomes[reply[i]].msg \o LLMErrorSuffix
            ELSE /\ result.submetrics[i].score = ReplyScore[reply[i]]
                 /\ ReplyReason[reply[i]] # <<>> =>
                      result.submetrics[i].reason = ReplyReason[reply[i]]

\* the first call raised and the other two returned 4.0 and 2.5
C9_Witness ==
  /\ Aggregated
  /\ Len(tasks) = 3
  /\ reply = <<3, 1, 2>>
  /\ result.submetrics[1].score = 3000
  /\ result.submetrics[2].score = 4000
  /\ result.submetrics[2].reason = <<"g","o","o","d">>
  /\ result.submetrics[3].score = 2500

\* C10: the evaluation is not aggregated, nor past its wait for the
\* submetrics, while a submetric evaluation it dispatched has not returned
\* its result.
C10_NoEarlyAggregate ==
  pc \in {"joined", "aggregated"} =>
    /\ \A i \in 1..Len(tasks) : status[i] = "done" /\ sub[i] # NoSub
    /\ Len(sub_results) = Len(tasks)

\* an evaluation of five submetrics is aggregated
C10_Witness ==
  /\ Aggregated
  /\ Len(tasks) = 5
  /\ \A i \in 1..5 : status[i] = "done"

(***************************************************************************)
(* Properties of the context resolution and of the secondary path          *)
(***************************************************************************)
WithSources == call.method = "evaluate_with_sources"

\* C11: an evaluate_with_sources call that fails fails with the KeyError of
\* a placeholder missing at rendering, whatever the corpora and the backend.
C11_OnlyRenderFailures ==
  (WithSources /\ pc = "failed") => error = "KeyError"

EmptyCorpora == call.sources = <<EmptyDict, EmptyDict, EmptyDict>>

\* the variables of the resolver that describe the past project
HistoricalNames == KwargNames \ {"current_stuff"}

\* the keyword arguments task i is rendered with
KwargsOfTask(i) == ScoreOneKwargs(call.project_name, tasks[i].label, call.sources)

EmptyCorporaKwargs ==
  [past_project_name |-> PyText("Example Project"),
   past_project_company |-> EmptyText,
   past_project_scope_and_objectives |-> EmptyText,
   past_project_business_value_contribution |-> EmptyText,
   past_project_scalability_data_scope |-> EmptyText,
   past_project_data_scope |-> EmptyText,
   past_project_stakeholders |-> EmptyText,
   past_metric_evaluation |-> EmptyText,
   past_metric_score |-> EmptyText,
   current_stuff |-> EmptyDict]

Synthesized(i) ==
  ~tasks[i].with_sources /\ CatalogIndex(evaluator.metric_id, tasks[i].label) = 0

\* C13: on the path of evaluate a key without a catalog entry gets a prompt
\* that renders with the project text alone: its task does not raise, a
\* failure of the call comes from a catalog prompt, and a call whose keys all
\* lack an entry returns one submetric for each key.
C13_PlaceholderRenders ==
  /\ \A i \in 1..Len(tasks) : Synthesized(i) =>
       /\ status[i] # "raised"
       /\ tasks[i].prompt.key = evaluator.submetric_keys[i]
       /\ tasks[i].prompt.fields = {"project_text"}
  /\ (pc = "failed" /\ \E i \in 1..Len(tasks) : Synthesized(i)) =>
       \E j \in 1..Len(tasks) : ~Synthesized(j) /\ status[j] = "raised"
  /\ (Aggregated /\ \A i \in 1..Len(tasks) : Synthesized(i)) =>
       /\ Len(result.submetrics) = Len(evaluator.submetric_keys)
       /\ \A i \in 1..Len(tasks) :
            result.submetrics[i].key = evaluator.submetric_keys[i]

\* evaluate returned two submetrics for two keys without a catalog entry
C13_Witness ==
  /\ Aggregated
  /\ call.method = "evaluate"
  /\ Len(evaluator.submetric_keys) = 2
  /\ \A i \in 1..2 : Synthesized(i)
  /\ Len(result.submetrics) = 2
  /\ result.submetrics[2].name = "Team Fit"

(***************************************************************************)
(* llm.py: StubLLMClient                                                   *)
(***************************************************************************)
\* ord(c) for the characters of the prompts below
Ord(c) == CASE c = "a" -> 97 [] c = "b" -> 98 [] c = " " -> 32

\* sum(ord(c) for c in s), added up by halves
RECURSIVE SumOrd(_)
SumOrd(s) ==
  IF s = <<>> THEN 0
  ELSE IF Len(s) = 1 THEN Ord(s[1])
  ELSE SumOrd(SubSeq(s, 1, Len(s) \div 2)) + SumOrd(SubSeq(s, (Len(s) \div 2) + 1, Len(s)))

\* prompt[:128]
StubPrefixLen == 128

\* the sign of the error of the double 3.0 + (k * 0.05 - 0.2) against
\* 2.8 + 0.05 k, for k = 0..8
StubErr == <<-1, 1, -1, 1, 0, -1, 1, -1, 1>>

StubReason == <<"D","e","t","e","r","m","i","n","i","s","t","i","c"," ","s","t","u","b"," ","b","a","s","e","d"," ","o","n"," ","p","r","o","m","p","t"," ","c","o","n","t","e","n","t",".">>

\* the stub that sums the whole prompt
StubComplete_WholePrompt(prompt) ==
  RespDict(Round2(PyNum(2800 + 50 * (SumOrd(prompt) % 9), StubErr[(SumOrd(prompt) % 9) + 1])),
           PyStr(StubReason))

\* a stub whose tweak is three times as large
StubReply_Wide(n) ==
  RespDict(Round2(PyNum(2800 + 150 * n, StubErr[n + 1])), PyStr(StubReason))

\* lines 127-131: the reply for the tweak n * 0.05
StubReply(n) ==
  RespDict(Round2(PyNum(2800 + 50 * n, StubErr[n + 1])), PyStr(StubReason))

\* StubLLMClient.complete(prompt)
StubComplete(prompt) == StubReply(SumOrd(Prefix(prompt, StubPrefixLen)) % 9)

\* the evaluator at rest and the normalizer not called
AtRest ==
  /\ llm = "in_order"
  /\ evaluator = ImpactEvaluator
  /\ pc = "idle"
  /\ call = NoCall
  /\ tasks = <<>>
  /\ status = <<>>
  /\ reply = <<>>
  /\ sub = <<>>
  /\ order = <<>>
  /\ sub_results = <<>>
  /\ error = "none"
  /\ result = NoResult
  /\ nraw = PyNone
  /\ nresp = NoResp

restVars == <<llm, evaluator, pc, call, tasks, status, reply, sub, order, sub_results,
              error, result, nraw, nresp>>

\* prompts: short ones, and ones of a's then b's that fill the prefix, with
\* a tail after it
MaxHead == 8
MaxTail == 1
MaxShort == 3

Tails == UNION {[1..n -> {"a", "b"}] : n \in 0..MaxTail}

StubPrompts ==
  {Rep("a", k) : k \in 0..MaxShort}
    \cup {Rep("a", h) \o Rep("b", StubPrefixLen - h) \o t : h \in 0..MaxHead, t \in Tails}

StubInit ==
  /\ AtRest
  /\ arg \in {[fn |-> "stub", prompts |-> <<p, q>>] : p, q \in StubPrompts}
  /\ ret = NoRet

\* two calls of complete, one for each prompt
StubCalls ==
  /\ arg.fn = "stub"
  /\ ret = NoRet
  /\ ret' = [fn |-> "stub",
             replies |-> <<StubComplete(arg.prompts[1]), StubComplete(arg.prompts[2])>>]
  /\ UNCHANGED <<arg, restVars>>

StubNext == StubCalls

StubSpec == StubInit /\ [][StubNext]_vars

\* the scores 2.80, 2.85, ..., 3.20
StubScores == {PyNum(2800 + 50 * k, 0) : k \in 0..8}

\* C14: the replies of the stand-in to two prompts that agree on their first
\* 128 characters are the same; each score is one of 2.80, 2.85, ..., 3.20
\* and the reason the fixed string.
C14_StubDeterministic ==
  ret.fn = "stub" =>
    /\ Take(arg.prompts[1], 128) = Take(arg.prompts[2], 128) => ret.replies[1] = ret.replies[2]
    /\ \A j \in 1..2 :
         /\ ret.replies[j].score_1_to_5 \in StubScores
         /\ ret.replies[j].reason = PyStr(StubReason)

\* two different prompts with the same first 128 characters got the same
\* reply
C14_Witness ==
  /\ ret.fn = "stub"
  /\ arg.prompts[1] # arg.prompts[2]
  /\ Len(arg.prompts[1]) > 128
  /\ Take(arg.prompts[1], 128) = Take(arg.prompts[2], 128)
  /\ ret.replies[1] = ret.replies[2]
  /\ ret.replies[1].score_1_to_5 = PyNum(2850, 0)

(***************************************************************************)
(* llm.py: Generator, and the choice of the backend by run_evaluations and *)
(* run_ai_evaluation.  The environment of a call: whether the openai       *)
(* package is there, the state of config.json, whether the client can be   *)
(* built, and what the API does.                                           *)
(***************************************************************************)
Environments ==
  [openai : BOOLEAN, config : {"missing", "invalid", "no_keys", "ok"}, client : {"ok", "raises"}]

\* Generator.__init__: nothing is loaded
NewGenerator == [config |-> "None", client |-> "None"]

ImportErrorText == 
  <<"o","p","e","n","a","i"," ","p","a","c","k","a","g","e"," ","n","o","t"," ","i","n",
  "s","t","a","l","l","e","d","."," ","I","n","s","t","a","l","l"," ","w","i","t","h",
  ":"," ","p","i","p"," ","i","n","s","t","a","l","l"," ","o","p","e","n","a","i">>
NotFoundText == 
  <<"C","o","n","f","i","g"," ","f","i","l","e"," ","n","o","t"," ","f","o","u","n","d",
  ":"," ","c","o","n","f","i","g",".","j","s","o","n">>
JsonErrorText == 
  <<"E","x","p","e","c","t","i","n","g"," ","v","a","l","u","e",":"," ","l","i","n","e",
  " ","1"," ","c","o","l","u","m","n"," ","1"," ","(","c","h","a","r"," ","0",")">>
MissingKeysText == 
  <<"M","i","s","s","i","n","g"," ","r","e","q","u","i","r","e","d"," ","c","o","n","f",
  "i","g"," ","k","e","y","s",":"," ","[","'","a","z","u","r","e","_","e","n","d","p",
  "o","i","n","t","'",","," ","'","a","p","i","_","k","e","y","'",","," ","'","a","p",
  "i","_","v","e","r","s","i","o","n","'",","," ","'","d","e","p","l","o","y","m","e",
  "n","t","_","n","a","m","e","'","]">>
KeyErrorText == <<"'","a","z","u","r","e","_","e","n","d","p","o","i","n","t","'">>
ClientErrorText == <<"b","a","d"," ","e","n","d","p","o","i","n","t">>

\* a call ends: what it gives, and the Generator after it
Ended(out, gen) == [out |-> out, gen |-> gen]

\* load_api_key(): _config is assigned before the keys are looked at
LoadApiKey(env, gen) ==
  CASE env.config = "missing" -> Ended(Raised(NotFoundText), gen)
    [] env.config = "invalid" -> Ended(Raised(JsonErrorText), gen)
    [] env.config = "no_keys" ->
         Ended(Raised(MissingKeysText), [gen EXCEPT !.config = "no_keys"])
    [] env.config = "ok" -> Ended(Returned(PyNone), [gen EXCEPT !.config = "ok"])

\* a client that is built and not kept
BuildClient_NotKept(env, gen) ==
  IF gen.config = "no_keys" THEN Ended(Raised(KeyErrorText), gen)
  ELSE IF env.client = "raises" THEN Ended(Raised(ClientErrorText), gen)
  ELSE Ended(Returned(PyNone), gen)

\* lines 69-74: the client is built from the configuration
BuildClient(env, gen) ==
  IF gen.client # "None" THEN Ended(Returned(PyNone), gen)
  ELSE IF gen.config = "no_keys" THEN Ended(Raised(KeyErrorText), gen)
  ELSE IF env.client = "raises" THEN Ended(Raised(ClientErrorText), gen)
  ELSE Ended(Returned(PyNone), [gen EXCEPT !.client = "built"])

\* what the API call and the reading of its response give: an exception, or
\* the content of the first choice
ApiRaised(msg) == [kind |-> "raise", msg |-> msg]
ApiContent(text) == [kind |-> "content", text |-> text]

ParseFailedPrefix == 
  <<"F","a","i","l","e","d"," ","t","o"," ","p","a","r","s","e"," ","r","e","s","p","o",
  "n","s","e",":"," ">>
RawResponseInfix == <<"."," ","R","a","w"," ","r","e","s","p","o","n","s","e",":"," ">>
Ellipsis == <<".", ".", ".">>
ApiFailedPrefix == <<"A","P","I"," ","c","a","l","l"," ","f","a","i","l","e","d",":"," ">>
MissingFieldsText == 
  <<"M","i","s","s","i","n","g"," ","r","e","q","u","i","r","e","d"," ","f","i","e","l",
  "d","s"," ","i","n"," ","r","e","s","p","o","n","s","e">>
NotIterableText == 
  <<"a","r","g","u","m","e","n","t"," ","o","f"," ","t","y","p","e"," ","'","i","n","t",
  "'"," ","i","s"," ","n","o","t"," ","i","t","e","r","a","b","l","e">>
\* the text of a JSONDecodeError, which is not looked at
DecodeErrorText == <<"<JSONDecodeError>">>

RawResponseLimit == 100

EndsWith(s, lit) ==
  Len(s) >= Len(lit) /\ SubSeq(s, Len(s) - Len(lit) + 1, Len(s)) = lit

DropFirst(s, n) == SubSeq(s, n + 1, Len(s))
DropLast(s, n) == SubSeq(s, 1, Len(s) - n)

FenceJson == Fence \o <<"j", "s", "o", "n">>

\* lines 92-99: the content without its code fence
StripOpenFence(s) ==
  IF StartsWithAt(s, 1, FenceJson) THEN DropFirst(s, 7) ELSE s
StripFence(s) == IF StartsWithAt(s, 1, Fence) THEN DropFirst(s, 3) ELSE s
StripCloseFence(s) == IF EndsWith(s, Fence) THEN DropLast(s, 3) ELSE s
CleanedContent(content) ==
  Strip(StripCloseFence(StripFence(StripOpenFence(Strip(content)))))

\* name in result, for the values json.loads gives: a key of a dict, an
\* element of a list, a part of a string; a TypeError for the others
Contains(v, name) ==
  CASE v.t = "dict" -> DictHas(v.items, name)
    [] v.t = "list" -> \E i \in 1..Len(v.items) : v.items[i] = PyStr(name)
    [] v.t = "str" -> \E i \in 1..(Len(v.s) + 1) : StartsWithAt(v.s, i, name)
    [] OTHER -> FALSE

DefaultedReply(reason) == Rec(ScoreKey, Three, reason)

\* lines 101-110 for the parsed value
CheckedResult(v, content) ==
  IF v.t \notin {"dict", "list", "str"}
  THEN DefaultedReply(ApiFailedPrefix \o NotIterableText)
  ELSE IF Contains(v, ScoreKey) /\ Contains(v, ReasonKey) THEN v
  ELSE DefaultedReply(ParseFailedPrefix \o MissingFieldsText \o RawResponseInfix
                        \o Prefix(content, RawResponseLimit) \o Ellipsis)

\* lines 87-110: the reply made of the content
ReplyOfContent(content) ==
  IF JsonLoads(CleanedContent(content)).ok
  THEN CheckedResult(JsonLoads(CleanedContent(content)).v, content)
  ELSE DefaultedReply(ParseFailedPrefix \o DecodeErrorText \o RawResponseInfix
                        \o Prefix(content, RawResponseLimit) \o Ellipsis)

\* lines 76-116: the try block
ApiCall(api) ==
  IF api.kind = "raise" THEN Returned(DefaultedReply(ApiFailedPrefix \o api.msg))
  ELSE Returned(ReplyOfContent(Strip(api.text)))

\* the Generator with its configuration loaded, if it loads
Loaded(env, gen) == IF gen.config = "None" THEN LoadApiKey(env, gen).gen ELSE gen

\* lines 63-74, which run without a suspension: the import is checked, the
\* configuration loaded and the client built, unless already there
BeforeAwait(env, gen) ==
  IF ~env.openai THEN Ended(Raised(ImportErrorText), gen)
  ELSE IF gen.config = "None" /\ LoadApiKey(env, gen).out.kind = "raise"
  THEN LoadApiKey(env, gen)
  ELSE BuildClient(env, Loaded(env, gen))

\* Generator.complete(prompt)
GeneratorComplete(env, gen, api) ==
  IF BeforeAwait(env, gen).out.kind = "raise" THEN BeforeAwait(env, gen)
  ELSE Ended(ApiCall(api), BeforeAwait(env, gen).gen)

\* try: llm = Generator() except Exception: llm = StubLLMClient()
\* (Generator() raises nothing); run_ai_evaluation(use_azure=False) takes the
\* stub
ChooseBackend(caller, env) ==
  IF caller = "run_ai_evaluation_stub" THEN "StubLLMClient" ELSE "Generator"

(***************************************************************************)
(* A backend chosen by a caller and called by _score_one                   *)
(***************************************************************************)
Callers == {"run_evaluations", "run_ai_evaluation", "run_ai_evaluation_stub"}

GoodRecord == Rec(ScoreKey, PyNum(4000, 0), <<"g","o","o","d">>)

\* what the API does at a call
ApiOutcomes ==
  { ApiRaised(<<"d","o","w","n">>),
    ApiRaised(<<"4","0","1">>),
    ApiRaised(<<"l","i","s","t"," ","i","n","d","e","x"," ","o","u","t"," ","o","f"," ","r","a","n","g","e">>),
    ApiRaised(<<"'","N","o","n","e","T","y","p","e","'"," ","o","b","j","e","c","t"," ","h","a","s",
     " ","n","o"," ","a","t","t","r","i","b","u","t","e"," ","'","s","t","r","i","p","'">>),
    ApiContent(JsonDumps(GoodRecord)),
    ApiContent(FenceJson \o <<"\n">> \o JsonDumps(GoodRecord) \o <<"\n">> \o Fence),
    ApiContent(<<"S","u","r","e","!"," ","4">>),
    ApiContent(<<" ","7">>),
    ApiContent(JsonDumps(PyDict(<< [k |-> ScoreKey, v |-> PyNum(4000, 0)] >>))) }

MaxCalls == 2

BackendInit ==
  /\ AtRest
  /\ arg \in [fn : {"backend"}, caller : Callers, env : Environments]
  /\ ret = NoRet

\* the caller makes its backend
Construct ==
  /\ arg.fn = "backend"
  /\ ret = NoRet
  /\ ret' = [fn |-> "backend", llm |-> ChooseBackend(arg.caller, arg.env),
             gen |-> NewGenerator, outs |-> <<>>, subs |-> <<>>]
  /\ UNCHANGED <<arg, restVars>>

\* _score_one calls complete, which ended with out and left the Generator gen
Called(out, gen) ==
  ret' = [ret EXCEPT !.gen = gen,
                     !.outs = Append(@, out),
                     !.subs = Append(@, SubResult(SUBMETRIC_PROMPTS[1].prompt,
                                                  BackendResp(out)))]

GeneratorCall ==
  /\ ret.fn = "backend"
  /\ ret.llm = "Generator"
  /\ Len(ret.outs) < MaxCalls
  /\ \E api \in ApiOutcomes :
       Called(GeneratorComplete(arg.env, ret.gen, api).out,
              GeneratorComplete(arg.env, ret.gen, api).gen)
  /\ UNCHANGED <<arg, restVars>>

StubCall ==
  /\ ret.fn = "backend"
  /\ ret.llm = "StubLLMClient"
  /\ Len(ret.outs) < MaxCalls
  /\ \E prompt \in {Rep("a", k) : k \in 0..MaxShort} :
       Called(Returned(Rec(ScoreKey, StubComplete(prompt).score_1_to_5,
                           StubComplete(prompt).reason.s)),
              ret.gen)
  /\ UNCHANGED <<arg, restVars>>

BackendNext == Construct \/ GeneratorCall \/ StubCall

BackendSpec == BackendInit /\ [][BackendNext]_vars

\* C15: no call of the network backend's complete raises: every failure is
\* turned into a reply.
C15_CompleteNeverRaises ==
  (ret.fn = "backend" /\ ret.llm = "Generator") =>
    \A k \in 1..Len(ret.outs) : ret.outs[k].kind = "return"

\* the network backend cannot be made to work: the package, the
\* configuration or the client is missing
CannotConstruct(env) == ~env.openai \/ env.config # "ok" \/ env.client = "raises"

\* C16: when the network backend cannot be constructed, the caller that asked
\* for it has the stand-in, and the submetric results are those of the
\* stand-in.
C16_FallsBackToStub ==
  (ret.fn = "backend" /\ arg.caller \in {"run_evaluations", "run_ai_evaluation"}
     /\ CannotConstruct(arg.env)) =>
    /\ ret.llm = "StubLLMClient"
    /\ \A k \in 1..Len(ret.subs) :
         /\ ret.subs[k].reason = StubReason
         /\ PyNum(ret.subs[k].score, 0) \in StubScores

(***************************************************************************)
(* The context resolver on its own: corpora of every shape, one submetric  *)
(* label, two projects under evaluation                                    *)
(***************************************************************************)
Pair(k, v) == [k |-> k, v |-> v]

\* a record of pastEvaluations
EvaluationOf(said) ==
  Pair("metrics",
       PyDict(<< Pair("Strategic Fit",
                      PyDict(<< Pair("evaluation", PyText(said)),
                                Pair("score", PyNum(4000, 0)) >>)),
                 Pair("Business Value Contribution",
                      PyDict(<< Pair("evaluation", PyText(said)) >>)) >>))

Named(name, fields) == PyDict(<< Pair("project_name", name) >> \o fields)

EvaAlpha == PyDict(<< EvaluationOf("alpha fits") >>)
EvaBeta == PyDict(<< EvaluationOf("beta fits") >>)

\* a record of the intake answers
PrfAlpha ==
  PyDict(<< Pair("company", PyText("A Corp")), Pair("scope", PyText("A scope")),
            Pair("data_sources", PyText("A data")), Pair("team", PyText("A team")) >>)
PrfBeta ==
  PyDict(<< Pair("business_unit", PyText("B Unit")),
            Pair("Project Scope & Objectives", PyText("B scope")),
            Pair("objectives", PyText("B goals")),
            Pair("data_scope", PyText("B data")) >>)
\* the first field present and empty
PrfBlank ==
  PyDict(<< Pair("company", PyText("")), Pair("business_unit", PyText("A Unit")) >>)

Evaluations ==
  { EmptyDict,
    PyDict(<< Pair("Alpha", EvaAlpha), Pair("Beta", EvaBeta) >>),
    PyDict(<< Pair("Beta", EvaBeta), Pair("Alpha", EvaAlpha) >>),
    PyDict(<< Pair("Alpha", PyText("n/a")), Pair("Beta", EvaBeta),
              Pair("Gamma", PyNone) >>),
    Named(PyText("Alpha"), EvaAlpha.items),
    PyList(<< Named(PyText("Alpha"), EvaAlpha.items), Named(PyText("Beta"), EvaBeta.items),
              Named(PyText("Alpha"), EvaBeta.items) >>),
    PyList(<< PyText("Alpha"), EvaAlpha, Named(PyNone, EvaBeta.items),
              Named(PyText("Alpha"), <<>>) >>),
    PyList(<< Named(PyList(<< PyText("Alpha") >>), EvaAlpha.items) >>),
    Named(PyDict(<<>>), EvaAlpha.items),
    PyText("Alpha"),
    PyNum(7000, 0),
    OddMetrics }

Intakes ==
  { EmptyDict,
    PyDict(<< Pair("Alpha", PrfAlpha), Pair("Beta", PrfBeta) >>),
    PyDict(<< Pair("Beta", PrfBeta), Pair("Alpha", PrfAlpha) >>),
    PyDict(<< Pair("Alpha", PrfBlank) >>),
    PyList(<< Named(PyText("Beta"), PrfBeta.items), Named(PyText("Alpha"), PrfAlpha.items) >>),
    Named(PyText("Alpha"), PrfAlpha.items),
    OddName }

Staffs ==
  { EmptyDict,
    PyDict(<< Pair("current_stuff", PyList(<< PyText("Ada") >>)),
              Pair("staff", PyText("nobody")) >>),
    PyDict(<< Pair("staff", PyText("Ada, Bo")) >>),
    PyText("Ada, Bo") }

Labels == {"Strategic Fit", "Business Value Contribution", "Estimated Person-Day Effort"}

Evaluated == <<"Alpha", "Beta">>

\* join_and_embed.py, index_by_project_name(obj)
index_by_project_name(obj) ==
  IF obj.t = "dict" /\ DictHas(obj.items, "project_name")
  THEN IF Hashable(DictGet(obj.items, "project_name", PyNone))
       THEN Value(<< Pair(DictGet(obj.items, "project_name", PyNone), obj) >>)
       ELSE Throw("TypeError")
  ELSE IF obj.t = "list" THEN IndexList(obj.items, <<>>)
  ELSE IF obj.t = "dict" THEN Value(DictValued(obj.items))
  ELSE Value(<<>>)

\* src/project_eval/prompts.py: the same ten prompts, each template ending
\* with the reply format in single braces, which str.format reads as one
\* more placeholder
ReplyFormatField == "\"score_1_to_5\""

SUBMETRIC_PROMPTS_project_eval ==
  [i \in 1..Len(SUBMETRIC_PROMPTS) |->
     [metric |-> SUBMETRIC_PROMPTS[i].metric, label |-> SUBMETRIC_PROMPTS[i].label,
      prompt |-> SubmetricPrompt(SUBMETRIC_PROMPTS[i].prompt.key,
                                 SUBMETRIC_PROMPTS[i].prompt.name,
                                 SUBMETRIC_PROMPTS[i].prompt.fields \cup {ReplyFormatField})]]

\* the prompts of a catalog that render with the keyword arguments kwargs
Rendering(catalog, kwargs) ==
  {i \in 1..Len(catalog) : RenderOk(catalog[i].prompt, kwargs)}

ResolverInit ==
  /\ AtRest
  /\ arg \in [fn : {"index"}, obj : Evaluations \cup Intakes]
          \cup [fn : {"resolve"}, submetric_label : Labels, evaulations : Evaluations,
                prf_answers : Intakes, staff_info : Staffs]
  /\ ret = NoRet

\* one corpus is normalized, by the evaluators and by the script
IndexCorpus ==
  /\ arg.fn = "index"
  /\ ret = NoRet
  /\ ret' = [fn |-> "index", by |-> IndexByProjectName(arg.obj),
             script |-> index_by_project_name(arg.obj)]
  /\ UNCHANGED <<arg, restVars>>

\* _build_prompt_kwargs for each of the two projects under evaluation
Resolve ==
  /\ arg.fn = "resolve"
  /\ ret = NoRet
  /\ ret' = [fn |-> "resolve",
             kwargs |-> [n \in 1..Len(Evaluated) |->
                           BuildPromptKwargs(PyText(Evaluated[n]), arg.submetric_label,
                                             arg.evaulations, arg.prf_answers,
                                             arg.staff_info)]]
  /\ UNCHANGED <<arg, restVars>>

\* every prompt of both catalogs is rendered with the resolver's mapping
RenderAll ==
  /\ ret.fn = "resolve"
  /\ ret.kwargs[1].ok
  /\ ret' = [fn |-> "render", kwargs |-> ret.kwargs,
             api |-> Rendering(SUBMETRIC_PROMPTS, DOMAIN ret.kwargs[1].v),
             project_eval |-> Rendering(SUBMETRIC_PROMPTS_project_eval,
                                        DOMAIN ret.kwargs[1].v)]
  /\ UNCHANGED <<arg, restVars>>

ResolverNext == IndexCorpus \/ Resolve \/ RenderAll

ResolverSpec == ResolverInit /\ [][ResolverNext]_vars

(***************************************************************************)
(* C17 - C20: the context resolver                                         *)
(***************************************************************************)
\* the resolver returned a mapping for the first project under evaluation
Resolved == ret.fn \in {"resolve", "render"} /\ ret.kwargs[1].ok

\* the normalized pastEvaluations of the resolution at hand
PastEvaluations == IndexByProjectName(arg.evaulations).v

\* C17: the exemplar is the first project name of the normalized
\* pastEvaluations in iteration order, and the two resolutions that differ
\* only in the project under evaluation give the same placeholder variables.
C17_ExemplarIsFirst ==
  ret.fn \in {"resolve", "render"} =>
    /\ \A n \in 1..Len(Evaluated) : ret.kwargs[n] = ret.kwargs[1]
    /\ (ret.kwargs[1].ok /\ PastEvaluations # <<>>) =>
         ret.kwargs[1].v.past_project_name = PastEvaluations[1].k

\* a resolution whose second project under evaluation is in pastEvaluations
\* and is not the exemplar
C17_Witness ==
  /\ Resolved
  /\ Len(PastEvaluations) > 1
  /\ PastEvaluations[1].k = PyText("Alpha")
  /\ PastEvaluations[2].k = PyText(Evaluated[2])
  /\ ret.kwargs[2].v.past_project_name = PyText("Alpha")

\* d[names[k]] for the first k with names[k] in d, the empty string when there
\* is none
FirstPresent(d, names) ==
  IF \E k \in 1..Len(names) : DictHas(d.items, names[k])
  THEN DictGet(d.items,
               names[CHOOSE k \in 1..Len(names) :
                       /\ DictHas(d.items, names[k])
                       /\ \A j \in 1..(k - 1) : ~DictHas(d.items, names[j])],
               EmptyText)
  ELSE EmptyText

\* the intake record of the project named name, an empty record when the
\* intake answers have none
IntakeOf(prf_by, name) ==
  IF \E i \in 1..Len(prf_by) : prf_by[i].k = name
  THEN prf_by[CHOOSE i \in 1..Len(prf_by) : prf_by[i].k = name].v
  ELSE EmptyDict

\* the intake record of the exemplar
ExemplarIntake ==
  IF PastEvaluations = <<>> THEN EmptyDict
  ELSE IntakeOf(IndexByProjectName(arg.prf_answers).v, PastEvaluations[1].k)

\* C18: company, scope and objectives, stakeholders and data scope come from
\* the intake record of the exemplar, each the first present field of its
\* fallback chain and the empty string when none is present.
C18_IntakeOfExemplar ==
  Resolved =>
    /\ ret.kwargs[1].v.past_project_company =
         FirstPresent(ExemplarIntake, <<"company", "business_unit">>)
    /\ ret.kwargs[1].v.past_project_scope_and_objectives =
         FirstPresent(ExemplarIntake, <<"Project Scope & Objectives", "scope", "objectives">>)
    /\ ret.kwargs[1].v.past_project_stakeholders =
         FirstPresent(ExemplarIntake, <<"Project Stakeholders & Sponsorship", "team">>)
    /\ ret.kwargs[1].v.past_project_data_scope =
         FirstPresent(ExemplarIntake, <<"data_scope", "data_sources">>)

\* the records of a list that have the field project_name
NamedItems(items) ==
  {i \in 1..Len(items) : items[i].t = "dict" /\ DictHas(items[i].items, "project_name")}

NameOf(item) == DictGet(item.items, "project_name", PyNone)

\* every project name of the corpus can be the key of a mapping
NamesHashable(obj) ==
  IF obj.t = "dict" /\ DictHas(obj.items, "project_name") THEN Hashable(NameOf(obj))
  ELSE IF obj.t = "list" THEN \A i \in NamedItems(obj.items) : Hashable(NameOf(obj.items[i]))
  ELSE TRUE

\* the items by are a mapping: no key twice
IsMapping(by) == \A i, j \in 1..Len(by) : by[i].k = by[j].k => i = j

\* the entries of the mapping, as a set
Entries(by) == {by[i] : i \in 1..Len(by)}

\* the mapping the claim gives for a corpus
MappingOfShape(obj) ==
  IF obj.t = "dict" /\ DictHas(obj.items, "project_name") THEN {Pair(NameOf(obj), obj)}
  ELSE IF obj.t = "list"
  THEN {Pair(NameOf(obj.items[i]), obj.items[i]) :
          i \in {i \in NamedItems(obj.items) :
                   \A j \in NamedItems(obj.items) :
                     NameOf(obj.items[j]) = NameOf(obj.items[i]) => j <= i}}
  ELSE IF obj.t = "dict"
  THEN {Pair(PyText(obj.items[i].k), obj.items[i].v) :
          i \in {i \in 1..Len(obj.items) : obj.items[i].v.t = "dict"}}
  ELSE {}

C20_EveryTemplateRenders ==
  ret.fn = "render" =>
    /\ ret.api = 1..Len(SUBMETRIC_PROMPTS)
    /\ ret.project_eval = 1..Len(SUBMETRIC_PROMPTS_project_eval)

(***************************************************************************)
(* C21 - C29                                                               *)
(***************************************************************************)
\* submetric_label or prompt.name: the label under which _score_one has the
\* resolver look up the past metric entry
LookupLabel(task) ==
  IF task.with_sources /\ task.label # "" THEN task.label ELSE task.prompt.name

\* C21: the label under which evaluate_with_sources looks up the history of a
\* catalog prompt is the name of the submetric result it returns for it.
C21_NameIsJoinKey ==
  \A i \in 1..Len(tasks) :
    (WithSources /\ tasks[i].with_sources /\ status[i] = "done") =>
      sub[i].name = LookupLabel(tasks[i])

\* the largest number of prompts of an evaluation followed to its end
LiveTasks == 3

LiveInit ==
  /\ Init
  /\ Len(PromptsForMetric(evaluator.metric_id)) <= LiveTasks

\* the event loop runs every coroutine that can run, and in this
\* specification every backend call that was issued ends
LiveSpec ==
  /\ LiveInit
  /\ [][Next]_vars
  /\ \A i \in 1..LiveTasks : WF_vars(StartTask(i))
  /\ \A i \in 1..LiveTasks : WF_vars(\E k \in 1..Len(Outcomes) : Complete(i, k))
  /\ WF_vars(GatherResolves)
  /\ WF_vars(GatherRaises)
  /\ WF_vars(Aggregate)

\* the states of a metric evaluation in their order
Rank(p) ==
  CASE p = "idle" -> 0
    [] p = "resolved" -> 1
    [] p = "dispatched" -> 2
    [] p = "joined" -> 3
    [] p = "aggregated" -> 4
    [] p = "failed" -> 5

\* every prompt of the call renders
RendersAll ==
  \A i \in 1..Len(tasks) : StartException(tasks[i], call.project_name, call.sources) = "none"

\* a step of the evaluation goes to the next state, or from before Joined to
\* the failure of a rendering
InOrder ==
  \/ pc' = pc
  \/ Rank(pc') = Rank(pc) + 1 /\ pc' # "failed"
  \/ pc = "idle" /\ pc' = "dispatched" /\ tasks' = <<>>
  \/ pc \in {"resolved", "dispatched"} /\ pc' = "failed"

\* C22: an evaluation goes through Resolved, Dispatched, Joined, Aggregated
\* in that order; it is not Joined while a backend call has not ended; and
\* when every prompt renders and every backend call ends, it reaches
\* Aggregated.
C22_ReachesAggregated ==
  /\ [][InOrder]_vars
  /\ [](pc \in {"joined", "aggregated"} => \A i \in 1..Len(tasks) : status[i] = "done")
  /\ ((pc \in {"resolved", "dispatched"} /\ RendersAll) ~> (pc = "aggregated"))

\* an evaluation of several prompts went all the way
C22_Witness ==
  /\ pc = "aggregated"
  /\ Len(tasks) > 1
  /\ RendersAll
  /\ \A i \in 1..Len(tasks) : reply[i] # 0

\* how many backend calls of task i have ended
CallsEnded(i) == Cardinality({n \in 1..Len(order) : order[n] = i})

\* how many backend calls task i has issued: those that ended and the one it
\* is waiting for
CallsIssued(i) == CallsEnded(i) + (IF status[i] = "awaiting" THEN 1 ELSE 0)

\* the prompt of task i rendered
Rendered(i) == StartException(tasks[i], call.project_name, call.sources) = "none"

\* the steps of one task: from created to its wait for the backend when its
\* prompt rendered, to the exception of the rendering when it did not, and
\* from the wait to its return
TaskSteps ==
  \A i \in 1..Len(tasks) :
    \/ Len(status') # Len(status)
    \/ status'[i] = status[i]
    \/ status[i] = "created" /\ status'[i] = "awaiting" /\ Rendered(i)
    \/ status[i] = "created" /\ status'[i] = "raised" /\ ~Rendered(i)
    \/ status[i] = "awaiting" /\ status'[i] = "done"

\* C23: a task whose prompt rendered calls complete once and not again, a
\* task whose prompt did not render never calls it, an evaluation that
\* returned has one ended call for each of its prompts, and a task waits
\* nowhere but in that call.
C23_OneCallEach ==
  /\ [](\A i \in 1..Len(tasks) :
          /\ CallsIssued(i) = (IF status[i] \in {"awaiting", "done"} THEN 1 ELSE 0)
          /\ status[i] = "done" => (CallsEnded(i) = 1 /\ reply[i] # 0))
  /\ [](pc \in {"joined", "aggregated"} => Len(order) = Len(tasks))
  /\ [][TaskSteps]_vars

\* evaluate_with_sources returned after a backend call that raised: the call
\* was not made again
C23_Witness ==
  /\ pc = "aggregated"
  /\ WithSources
  /\ Len(tasks) > 1
  /\ \E i \in 1..Len(tasks) : Outcomes[reply[i]].kind = "raise" /\ CallsEnded(i) = 1

\* the value the normalizer has after decoding and parsing, when the parsing
\* did not fail
DecodedReply(raw) == IF raw.t = "bytes" THEN PyStr(DecodeIgnore(raw.s)) ELSE raw
ReachesValue(raw) == DecodedReply(raw).t = "str" => JsonLoads(DecodedReply(raw).s).ok
ValueReached(raw) ==
  IF DecodedReply(raw).t = "str" THEN JsonLoads(DecodedReply(raw).s).v ELSE DecodedReply(raw)

\* a sequence of one element, which is a record
OneRecordList(v) == v.t = "list" /\ Len(v.items) = 1 /\ v.items[1].t = "dict"

\* what the normalizer gives for v, a value reached after parsing
C24_OfValue(v, resp) ==
  /\ OneRecordList(v) => resp = NormalizeLLMResponse(v.items[1])
  /\ (v.t # "dict" /\ ~OneRecordList(v)) => resp = RespDict(Three, PyStr(NonDictReason))

\* C24: only a one-element sequence containing a record is unwrapped to that
\* record; every other value that is not a record gives 3.0 with the
\* non-record reason.
C24_OnlySingletonUnwrapped ==
  (nresp # NoResp /\ ReachesValue(nraw)) => C24_OfValue(ValueReached(nraw), nresp)

\* the three evaluators of the program
StockEvaluators == {ImpactEvaluator, EffortEvaluator, RiskEvaluator}

\* C26: each key declared by the impact, effort and risk evaluators has a
\* catalog entry under the evaluator's metric, and evaluate_with_sources
\* returns one result for each declared key, in their order, and no other.
C26_OneResultPerDeclaredKey ==
  (evaluator \in StockEvaluators /\ WithSources /\ Aggregated) =>
    /\ \A k \in 1..Len(evaluator.submetric_keys) :
         CatalogIndex(evaluator.metric_id, evaluator.submetric_keys[k]) # 0
    /\ Len(result.submetrics) = Len(evaluator.submetric_keys)
    /\ \A i \in 1..Len(tasks) :
         i <= Len(evaluator.submetric_keys) /\ tasks[i].label = evaluator.submetric_keys[i]

\* the call gives its prompts the project text alone
NoVariables ==
  \/ call.method = "evaluate"
  \/ WithSources /\ (call.project_name = PyNone \/ call.sources = <<PyNone, PyNone, PyNone>>)

\* C27: evaluate, and evaluate_with_sources without a project name or without
\* any corpus, render with the project text alone; a prompt taken from the
\* catalog then does not render, its task never calls the backend, and the
\* call does not return; evaluate returns only for keys that are all absent
\* from the catalog.
C27_CatalogNeedsVariables ==
  NoVariables =>
    /\ \A i \in 1..Len(tasks) :
         /\ tasks[i].with_sources => KwargsOfTask(i) = Value(<<>>)
         /\ ~Synthesized(i) =>
              /\ ~RenderOk(tasks[i].prompt, {})
              /\ status[i] \in {"created", "raised"}
    /\ (\E i \in 1..Len(tasks) : ~Synthesized(i)) => pc \notin {"joined", "aggregated"}
    /\ (call.method = "evaluate" /\ Aggregated) =>
         \A k \in 1..Len(evaluator.submetric_keys) :
           CatalogIndex(evaluator.metric_id, evaluator.submetric_keys[k]) = 0

\* evaluate failed for an evaluator with one key absent from the catalog and
\* the others in it
C27_Witness ==
  /\ call.method = "evaluate"
  /\ pc = "failed"
  /\ error = "KeyError"
  /\ \E i \in 1..Len(tasks) : Synthesized(i)
  /\ \E i \in 1..Len(tasks) : ~Synthesized(i) /\ status[i] = "raised"

\* the prompt of task i rendered while the prompt of another did not
RenderedBesideFailure(i) ==
  /\ i <= Len(tasks)
  /\ Rendered(i)
  /\ \E j \in 1..Len(tasks) :
       StartException(tasks[j], call.project_name, call.sources) = "KeyError"

\* a call that failed stays failed
StaysFailed == pc = "failed" => pc' = "failed" /\ result' = NoResult

\* C28: when the rendering of one prompt fails and that of a sibling succeeds,
\* the call fails with the KeyError of the rendering and returns no result,
\* and the sibling is not cancelled: its backend call is issued and ends
\* after the failure, and its result goes nowhere.
C28_SiblingsRunOn ==
  /\ []((pc = "failed" /\ \E i \in 1..Len(tasks) : RenderedBesideFailure(i)) =>
          error = "KeyError" /\ result = NoResult /\ sub_results = <<>>)
  /\ [][StaysFailed]_vars
  /\ \A i \in 1..LiveTasks :
       (pc \in {"resolved", "dispatched"} /\ RenderedBesideFailure(i))
         ~> (/\ pc = "failed"
             /\ i <= Len(tasks)
             /\ status[i] = "done"
             /\ result = NoResult)
  /\ \A i \in 1..LiveTasks :
       (pc = "failed" /\ RenderedBesideFailure(i) /\ status[i] \in {"created", "awaiting"})
         ~> (/\ pc = "failed"
             /\ i <= Len(tasks)
             /\ status[i] = "done"
             /\ sub[i] # NoSub
             /\ result = NoResult)

\* the call has failed and a sibling whose prompt rendered has not yet been
\* started
C28_Witness ==
  /\ pc = "failed"
  /\ error = "KeyError"
  /\ \E i \in 1..Len(tasks) : RenderedBesideFailure(i) /\ status[i] = "created"

(***************************************************************************)
(* One Generator used by several complete calls in flight at once.  A call *)
(* runs from its start to its await of the API without a suspension, and   *)
(* from the response to its return.                                        *)
(***************************************************************************)
MaxInFlight == 3

\* lines 69-70: the constructor of the client is called and returns
Constructs(env, gen) ==
  /\ BeforeAwait(env, gen).out.kind = "return"
  /\ Loaded(env, gen).client = "None"

ClientInit ==
  /\ AtRest
  /\ arg \in [fn : {"concurrent"}, env : Environments]
  /\ ret = [fn |-> "concurrent", gen |-> NewGenerator, built |-> 0, calls |-> <<>>]

\* complete is called and runs to its await, or raises before it; built
\* counts the clients made, and the call holds the one of self.client
CallComplete ==
  /\ ret.fn = "concurrent"
  /\ Len(ret.calls) < MaxInFlight
  /\ LET before == BeforeAwait(arg.env, ret.gen)
         built == ret.built + (IF Constructs(arg.env, ret.gen) THEN 1 ELSE 0)
     IN  ret' = [ret EXCEPT
                   !.gen = before.gen,
                   !.built = built,
                   !.calls = Append(@,
                     IF before.out.kind = "raise"
                     THEN [pc |-> "raised", client |-> 0, requests |-> 0, out |-> before.out]
                     ELSE [pc |-> "awaiting", client |-> built, requests |-> 1,
                           out |-> before.out])]
  /\ UNCHANGED <<arg, restVars>>

\* the API answers call i, which runs to its return
Respond ==
  /\ ret.fn = "concurrent"
  /\ \E i \in 1..Len(ret.calls), api \in ApiOutcomes :
       /\ ret.calls[i].pc = "awaiting"
       /\ ret' = [ret EXCEPT !.calls[i].pc = "returned", !.calls[i].out = ApiCall(api)]
  /\ UNCHANGED <<arg, restVars>>

ClientNext == CallComplete \/ Respond

ClientSpec == ClientInit /\ [][ClientNext]_vars

\* the calls that got to the API
PastLoading == {i \in 1..Len(ret.calls) : ret.calls[i].pc \in {"awaiting", "returned"}}

\* C25: whatever the interleaving of the calls in flight, at most one client
\* is made, by the first call that gets past the loading of the
\* configuration; every call that gets that far uses that client and issues
\* one request.
C25_OneClient ==
  ret.fn = "concurrent" =>
    /\ ret.built <= 1
    /\ ret.built = 1 <=> PastLoading # {}
    /\ \A i \in PastLoading : ret.calls[i].client = 1 /\ ret.calls[i].requests = 1
    /\ \A i \in 1..Len(ret.calls) : i \notin PastLoading => ret.calls[i].requests = 0

\* three calls in flight at once, of which the second has returned
C25_Witness ==
  /\ ret.fn = "concurrent"
  /\ Len(ret.calls) = MaxInFlight
  /\ ret.calls[1].pc = "awaiting"
  /\ ret.calls[2].pc = "returned"
  /\ ret.calls[3].pc = "awaiting"
  /\ ret.built = 1

(***************************************************************************)
(* The evaluation with the stand-in as its backend                         *)
(***************************************************************************)
\* sum(...) % 9: the tweaks a prompt can have
StubTweaks == 0..8

StubEvalInit ==
  /\ Init
  /\ llm = "in_order"

\* the stand-in answers task i: its sleeps end in the order of the calls
StubReturns ==
  \E i \in 1..Len(tasks), n \in StubTweaks :
    /\ status[i] = "awaiting"
    /\ \A j \in 1..(i - 1) : status[j] # "awaiting"
    /\ status' = [status EXCEPT ![i] = StatusAfterCall(Returned(PyNone))]
    /\ reply' = [reply EXCEPT ![i] = n + 1]
    /\ sub' = [sub EXCEPT ![i] =
                 SubResult(tasks[i].prompt,
                           BackendResp(Returned(Rec(ScoreKey, StubReply(n).score_1_to_5,
                                                    StubReply(n).reason.s))))]
    /\ order' = Append(order, i)
    /\ UNCHANGED <<llm, evaluator, pc, call, tasks, sub_results, error, result, nraw,
                   nresp, arg, ret>>

StubEvalNext ==
  \/ EvaluateWithSources
  \/ Evaluate
  \/ \E i \in 1..Len(tasks) : StartTask(i)
  \/ StubReturns
  \/ GatherResolves
  \/ GatherRaises
  \/ Aggregate

StubEvalSpec == StubEvalInit /\ [][StubEvalNext]_vars

\* C29: with the stand-in as backend, every result of evaluate_with_sources
\* has its submetric scores and its overall score in [2.80, 3.20] and the
\* band mid.
C29_StubIsMid ==
  (WithSources /\ Aggregated) =>
    /\ \A i \in 1..Len(result.submetrics) :
         result.submetrics[i].score >= 2800 /\ result.submetrics[i].score <= 3200
    /\ result.overall_score >= 2800
    /\ result.overall_score <= 3200
    /\ result.band = "mid"

\* the five submetrics of the risk metric got the lowest and the highest
\* score of the stand-in
C29_Witness ==
  /\ WithSources
  /\ Aggregated
  /\ Len(result.submetrics) = 5
  /\ \E i, j \in 1..5 :
       result.submetrics[i].score = 2800 /\ result.submetrics[j].score = 3200
  /\ result.overall_score = 2930
====
